---------------------------- MODULE Spec2Model ----------------------------
(***************************************************************************)
(* The routing and assignment engine of the Intelligent Document           *)
(* Classifier: DocumentRouter (routing_engine/app/router.py) and its        *)
(* message consumer process_routing_message (routing_engine/app/main.py),   *)
(* over the tables of libs/database/models.py.                              *)
(*                                                                          *)
(* Python values are modelled as follows.                                   *)
(*   - A str is a sequence of one-character strings, so that lower(),       *)
(*     substring tests and replace() are computed character by character.   *)
(*   - A JSON value (a rule condition, a context value, a skill list) is a  *)
(*     tagged record [t, v] with t in "str", "num", "list", "dict", "null". *)
(*     A dict's v is its sequence of <<key, value>> items in iteration      *)
(*     order; keys are only ever compared for equality and are atoms.       *)
(*   - A nullable str column holds Null when it is NULL.                    *)
(*   - Numbers of the message (confidence, risk_score: hundredths) and of   *)
(*     rule conditions are integers; they are only compared to each other.  *)
(*   - Times are in tenths of an hour.                                      *)
(***************************************************************************)
EXTENDS Integers, Sequences, FiniteSets, TLC

VARIABLES
    users,          \* table users: id -> row
    rules,          \* table routing_rules: id -> row
    documents,      \* table documents: id -> status
    assignments,    \* table document_assignments: sequence of rows, id = index
    published,      \* messages published to the queue "notifications"
    now,            \* datetime.utcnow()
    delivered,      \* number of classification messages consumed so far
    last,           \* what the latest call of process_routing_message did
    cond,           \* the evaluator's input: a rule condition
    ctx,            \* the evaluator's input: a document context
    evalOut,        \* the evaluator's output
    calls,          \* consumer -> the call of process_routing_message it is in
    stats           \* the result of get_routing_statistics

vars == <<users, rules, documents, assignments, published, now, delivered,
          last, cond, ctx, evalOut, calls, stats>>

routingVars == <<users, rules, documents, assignments, published, now,
                 delivered, last>>

evalVars == <<cond, ctx, evalOut>>

otherVars == <<calls, stats>>

---------------------------------------------------------------------------
(* Python str                                                              *)

UpperToLower ==
    [A |-> "a", B |-> "b", C |-> "c", D |-> "d", E |-> "e", F |-> "f",
     G |-> "g", H |-> "h", I |-> "i", J |-> "j", K |-> "k", L |-> "l",
     M |-> "m", N |-> "n", O |-> "o", P |-> "p", Q |-> "q", R |-> "r",
     S |-> "s", T |-> "t", U |-> "u", V |-> "v", W |-> "w", X |-> "x",
     Y |-> "y", Z |-> "z"]

\* str.lower()
Lower(s) ==
    [i \in 1..Len(s) |->
        IF s[i] \in DOMAIN UpperToLower THEN UpperToLower[s[i]] ELSE s[i]]

\* sub in s
IsSubstring(sub, s) ==
    \E i \in 0..(Len(s) - Len(sub)) : SubSeq(s, i + 1, i + Len(sub)) = sub

\* s.replace(old, new), old not empty: the occurrences of old, left to right
RECURSIVE Replace(_, _, _)
Replace(s, old, new) ==
    IF Len(s) < Len(old) THEN s
    ELSE IF SubSeq(s, 1, Len(old)) = old
         THEN new \o Replace(SubSeq(s, Len(old) + 1, Len(s)), old, new)
         ELSE <<s[1]>> \o Replace(Tail(s), old, new)

\* NULL in a nullable str column (no str: its one element is no character)
Null == <<"NULL">>

---------------------------------------------------------------------------
(* JSON values                                                             *)

JStr(s) == [t |-> "str", v |-> s]
JNum(n) == [t |-> "num", v |-> n]
JList(l) == [t |-> "list", v |-> l]
JDict(items) == [t |-> "dict", v |-> items]
JNull == [t |-> "null", v |-> <<>>]

\* key in d
HasKey(d, key) == \E i \in 1..Len(d.v) : d.v[i][1] = key

\* d[key]
GetKey(d, key) == d.v[CHOOSE i \in 1..Len(d.v) : d.v[i][1] = key][2]

---------------------------------------------------------------------------
(* DocumentRouter._evaluate_rule_condition                                 *)
(* The body of the try block ends in "True" (return True), "False"          *)
(* (return False) or "Raise" (an exception, which the except clause turns   *)
(* into False); one constraint alone ends in "pass" when the loop goes on.  *)

\* the branch isinstance(expected_value, str)
EvalString(expected, context_value) ==
    IF context_value.t = "str"
    THEN IF IsSubstring(Lower(expected.v), Lower(context_value.v))
         THEN "pass" ELSE "False"
    ELSE IF context_value.t = "list"
    THEN IF \E j \in 1..Len(context_value.v) :
                /\ context_value.v[j].t = "str"
                /\ IsSubstring(Lower(expected.v), Lower(context_value.v[j].v))
         THEN "pass" ELSE "False"
    ELSE "False"

\* the branch isinstance(expected_value, (int, float))
EvalNumber(expected, context_value) ==
    IF context_value.t = "num"
    THEN IF context_value.v # expected.v THEN "False" ELSE "pass"
    ELSE "False"

Compare(op, a, b) ==
    CASE op = "gt" -> a > b
      [] op = "lt" -> a < b
      [] op = "gte" -> a >= b
      [] op = "lte" -> a <= b

\* if op in expected_value: if not (isinstance(context_value, (int, float))
\*                                  and context_value <op> expected_value[op])
\* comparing a number with a str, a list, a dict or None raises TypeError
EvalCompare(op, expected, context_value) ==
    IF ~HasKey(expected, op) THEN "pass"
    ELSE IF context_value.t # "num" THEN "False"
    ELSE IF GetKey(expected, op).t # "num" THEN "Raise"
    ELSE IF Compare(op, context_value.v, GetKey(expected, op).v)
         THEN "pass" ELSE "False"

\* if "contains" in expected_value: ...
\* expected_value["contains"].lower() raises AttributeError unless it is a str;
\* a context value that is neither a str nor a list is not looked at
EvalContains(expected, context_value) ==
    IF ~HasKey(expected, "contains") THEN "pass"
    ELSE LET needle == GetKey(expected, "contains") IN
         IF context_value.t = "str"
         THEN IF needle.t # "str" THEN "Raise"
              ELSE IF IsSubstring(Lower(needle.v), Lower(context_value.v))
                   THEN "pass" ELSE "False"
         ELSE IF context_value.t = "list"
         THEN IF /\ needle.t # "str"
                 /\ \E j \in 1..Len(context_value.v) :
                        context_value.v[j].t = "str"
              THEN "Raise"
              ELSE IF \E j \in 1..Len(context_value.v) :
                          /\ context_value.v[j].t = "str"
                          /\ IsSubstring(Lower(needle.v),
                                         Lower(context_value.v[j].v))
                   THEN "pass" ELSE "False"
         ELSE "pass"

\* the first of the checks, in the order of the code, that does not pass
RECURSIVE FirstNotPass(_)
FirstNotPass(results) ==
    IF results = <<>> THEN "pass"
    ELSE IF Head(results) # "pass" THEN Head(results)
    ELSE FirstNotPass(Tail(results))

\* the branch isinstance(expected_value, dict)
EvalNested(expected, context_value) ==
    FirstNotPass(<<EvalCompare("gt", expected, context_value),
                   EvalCompare("lt", expected, context_value),
                   EvalCompare("gte", expected, context_value),
                   EvalCompare("lte", expected, context_value),
                   EvalContains(expected, context_value)>>)

\* a mutant of EvalConstraint: an expected value the code has no branch
\* for, or an object without a known key, fails the constraint
EvalConstraintStrict(expected, context_value) ==
    CASE expected.t = "str" -> EvalString(expected, context_value)
      [] expected.t = "num" -> EvalNumber(expected, context_value)
      [] expected.t = "dict" ->
            IF \E op \in {"gt", "lt", "gte", "lte", "contains"} :
                  HasKey(expected, op)
            THEN EvalNested(expected, context_value)
            ELSE "False"
      [] OTHER -> "False"

\* one (key, expected_value) of the loop, the key being in the context;
\* an expected value of no handled type (a list, null) falls through
EvalConstraint(expected, context_value) ==
    CASE expected.t = "str" -> EvalString(expected, context_value)
      [] expected.t = "num" -> EvalNumber(expected, context_value)
      [] expected.t = "dict" -> EvalNested(expected, context_value)
      [] OTHER -> "pass"

\* a mutant of EvalItems: a constraint on a field the context lacks fails
RECURSIVE EvalItemsAbsentFails(_, _, _)
EvalItemsAbsentFails(items, i, context) ==
    IF i > Len(items) THEN "True"
    ELSE IF items[i][1] \notin DOMAIN context THEN "False"
    ELSE LET r == EvalConstraint(items[i][2], context[items[i][1]]) IN
         IF r = "pass" THEN EvalItemsAbsentFails(items, i + 1, context)
         ELSE r

\* for key, expected_value in condition.items(): ... return True
RECURSIVE EvalItems(_, _, _)
EvalItems(items, i, context) ==
    IF i > Len(items) THEN "True"
    ELSE IF items[i][1] \notin DOMAIN context
         THEN EvalItems(items, i + 1, context)
    ELSE LET r == EvalConstraint(items[i][2], context[items[i][1]]) IN
         IF r = "pass" THEN EvalItems(items, i + 1, context)
         ELSE r

\* a mutant of EvalTry: an empty context is refused before the loop
EvalTryEmptyContext(condition, context) ==
    IF condition.t # "dict" THEN "Raise"
    ELSE IF DOMAIN context = {} THEN "False"
    ELSE EvalItems(condition.v, 1, context)

\* the try block: condition.items() raises AttributeError unless condition
\* is a dict
EvalTry(condition, context) ==
    IF condition.t # "dict" THEN "Raise"
    ELSE EvalItems(condition.v, 1, context)

\* try: ... except Exception: return False
evaluate_rule_condition(condition, context) ==
    EvalTry(condition, context) = "True"

---------------------------------------------------------------------------
(* The strings of the program                                              *)

s_contract == <<"c","o","n","t","r","a","c","t">>
s_invoice == <<"i","n","v","o","i","c","e">>
s_legal == <<"l","e","g","a","l">>
s_financial == <<"f","i","n","a","n","c","i","a","l">>
s_hr == <<"h","r">>
s_technical == <<"t","e","c","h","n","i","c","a","l">>
s_report == <<"r","e","p","o","r","t">>
s_correspondence == <<"c","o","r","r","e","s","p","o","n","d","e","n","c","e">>
s_team == <<"-","t","e","a","m">>
s_legal_team == s_legal \o s_team
s_finance_team == <<"f","i","n","a","n","c","e">> \o s_team
s_hr_team == s_hr \o s_team
s_engineering_team == <<"e","n","g","i","n","e","e","r","i","n","g">> \o s_team
s_management_team == <<"m","a","n","a","g","e","m","e","n","t">> \o s_team
s_admin_team == <<"a","d","m","i","n">> \o s_team

\* dict.get(key, default) of a dict given as a sequence of <<key, value>>
RECURSIVE DictGet(_, _, _)
DictGet(table, key, default) ==
    IF table = <<>> THEN default
    ELSE IF Head(table)[1] = key THEN Head(table)[2]
    ELSE DictGet(Tail(table), key, default)

---------------------------------------------------------------------------
(* DocumentRouter._get_default_routing_rule                                *)

default_mappings ==
    << <<s_contract, s_legal_team>>,
       <<s_invoice, s_finance_team>>,
       <<s_legal, s_legal_team>>,
       <<s_financial, s_finance_team>>,
       <<s_hr, s_hr_team>>,
       <<s_technical, s_engineering_team>>,
       <<s_report, s_management_team>>,
       <<s_correspondence, s_admin_team>> >>

\* a mutant of get_default_routing_rule: the fallback of the mapping is the
\* legal team
DefaultRuleToLegal(doc_type) ==
    LET assignee == DictGet(default_mappings, doc_type, s_legal_team) IN
    [name |-> <<"Default rule for ">> \o doc_type,
     assignee |-> assignee,
     team |-> assignee,
     priority |-> 1]

\* class DefaultRule: name, assignee, team, priority
get_default_routing_rule(doc_type) ==
    LET assignee == DictGet(default_mappings, doc_type, s_admin_team) IN
    [name |-> <<"Default rule for ">> \o doc_type,
     assignee |-> assignee,
     team |-> assignee,
     priority |-> 1]

---------------------------------------------------------------------------
(* DocumentRouter._calculate_due_date                                      *)

priority_hours == << <<5, 2>>, <<4, 8>>, <<3, 24>>, <<2, 72>>, <<1, 168>> >>

\* the modifiers, in tenths: 0.5, 0.5, 0.7, 0.8, 1.0, 1.2, 1.5, 1.0
type_modifiers ==
    << <<s_legal, 5>>, <<s_contract, 5>>, <<s_invoice, 7>>,
       <<s_financial, 8>>, <<s_hr, 10>>, <<s_technical, 12>>,
       <<s_report, 15>>, <<s_correspondence, 10>> >>

\* a mutant of calculate_due_date: an unrecognized priority gets a week
DueDateDefaultWeek(priority, doc_type, utcnow) ==
    utcnow + DictGet(priority_hours, priority, 168)
             * DictGet(type_modifiers, doc_type, 10)

\* utcnow() + timedelta(hours=base_hours * modifier), in tenths of an hour:
\* base_hours * modifier hours are base_hours * (10 * modifier) tenths
calculate_due_date(priority, doc_type, utcnow) ==
    utcnow + DictGet(priority_hours, priority, 72)
             * DictGet(type_modifiers, doc_type, 10)

---------------------------------------------------------------------------
(* Queries                                                                 *)

\* the sequences that hold each element of S once: the orders in which a
\* query without ORDER BY may return the rows S
Orders(S) ==
    {f \in [1..Cardinality(S) -> S] : \A i, j \in DOMAIN f : f[i] = f[j] => i = j}

\* the elements of seq that satisfy Test, in the order of seq
RECURSIVE SelectIds(_, _)
SelectIds(seq, keep) ==
    IF seq = <<>> THEN <<>>
    ELSE IF Head(seq) \in keep THEN <<Head(seq)>> \o SelectIds(Tail(seq), keep)
    ELSE SelectIds(Tail(seq), keep)

\* a mutant of RuleQueryResults: the rules by ascending priority
RuleQueryAscending(table) ==
    {f \in Orders({r \in DOMAIN table : table[r].is_active}) :
        \A i, j \in DOMAIN f :
            i < j => table[f[i]].priority <= table[f[j]].priority}

\* db.query(RoutingRule).filter(RoutingRule.is_active == True)
\*   .order_by(RoutingRule.priority.desc()).all()
\* the results the query may give: rules of equal priority come in any order
RuleQueryResults(table) ==
    {f \in Orders({r \in DOMAIN table : table[r].is_active}) :
        \A i, j \in DOMAIN f :
            i < j => table[f[i]].priority >= table[f[j]].priority}

\* User.department == dept: NULL equals nothing
DepartmentIs(row, dept) == row.department # Null /\ row.department = dept

---------------------------------------------------------------------------
(* DocumentRouter.route_document: the scan of the rules                    *)

\* the context dict of route_document; entities.get(key, [])
EntityList(entities, key) ==
    IF HasKey(entities, key) THEN GetKey(entities, key) ELSE JList(<<>>)

BuildContext(msg) ==
    [doc_type |-> JStr(msg.doc_type),
     confidence |-> JNum(msg.confidence),
     entities |-> msg.entities,
     risk_score |-> JNum(msg.risk_score),
     priority |-> JNum(msg.priority),
     persons |-> EntityList(msg.entities, "persons"),
     organizations |-> EntityList(msg.entities, "organizations"),
     amounts |-> EntityList(msg.entities, "money"),
     dates |-> EntityList(msg.entities, "dates")]

\* for rule in rules: if self._evaluate_rule_condition(...): matched_rule =
\* rule; break.  examined counts the rules whose condition was evaluated
\* a mutant of ScanRules: the exception of a condition ends the loop
RECURSIVE ScanRulesStopsAtError(_, _, _, _)
ScanRulesStopsAtError(table, order, i, context) ==
    IF i > Len(order) THEN [matched |-> "none", examined |-> Len(order)]
    ELSE IF EvalTry(table[order[i]].condition, context) = "Raise"
         THEN [matched |-> "none", examined |-> i]
    ELSE IF evaluate_rule_condition(table[order[i]].condition, context)
         THEN [matched |-> order[i], examined |-> i]
         ELSE ScanRulesStopsAtError(table, order, i + 1, context)

RECURSIVE ScanRules(_, _, _, _)
ScanRules(table, order, i, context) ==
    IF i > Len(order) THEN [matched |-> "none", examined |-> Len(order)]
    ELSE IF evaluate_rule_condition(table[order[i]].condition, context)
         THEN [matched |-> order[i], examined |-> i]
         ELSE ScanRules(table, order, i + 1, context)

\* the rule-shaped value the rest of route_document reads
RuleShape(row) ==
    [name |-> row.name, assignee |-> row.assignee, team |-> row.team,
     priority |-> row.priority]

---------------------------------------------------------------------------
(* DocumentRouter._find_best_assignee                                      *)

\* bool(s) of an Optional[str] column
StrTruthy(s) == s # Null /\ s # <<>>

\* bool(x) of a JSON value
JsonTruthy(x) ==
    CASE x.t = "null" -> FALSE
      [] x.t = "num" -> x.v # 0
      [] OTHER -> x.v # <<>>

\* a mutant of ActiveUsers: the filter on is_active is missing
ActiveUsersUnfiltered(table) == DOMAIN table

\* db.query(User).filter(User.is_active == True).all(), as a set of ids
ActiveUsers(table) == {u \in DOMAIN table : table[u].is_active}

\* a mutant of CandidateIds: a rule that names a worker is read as a team
CandidateIdsNoDirect(table, rule) ==
    LET byAssignee ==
            IF StrTruthy(rule.assignee)
            THEN {u \in ActiveUsers(table) :
                    DepartmentIs(table[u],
                                 Replace(rule.assignee, s_team, <<>>))}
            ELSE {}
        byTeam ==
            IF StrTruthy(rule.team) /\ byAssignee = {}
            THEN {u \in ActiveUsers(table) :
                    DepartmentIs(table[u], Replace(rule.team, s_team, <<>>))}
            ELSE byAssignee
    IN  IF byTeam = {} THEN ActiveUsers(table) ELSE byTeam

\* a mutant of CandidateIds: the team field is not read
CandidateIdsNoTeam(table, rule) ==
    LET named == {u \in DOMAIN table : table[u].username = rule.assignee}
        byAssignee ==
            IF StrTruthy(rule.assignee)
            THEN IF \E u \in named : table[u].is_active
                 THEN named
                 ELSE {u \in ActiveUsers(table) :
                         DepartmentIs(table[u],
                                      Replace(rule.assignee, s_team, <<>>))}
            ELSE {}
    IN  IF byAssignee = {} THEN ActiveUsers(table) ELSE byAssignee

\* a mutant of CandidateIds: an empty team ends the search for candidates
CandidateIdsNoFallback(table, rule) ==
    LET named == {u \in DOMAIN table : table[u].username = rule.assignee}
        byAssignee ==
            IF StrTruthy(rule.assignee)
            THEN IF \E u \in named : table[u].is_active
                 THEN named
                 ELSE {u \in ActiveUsers(table) :
                         DepartmentIs(table[u],
                                      Replace(rule.assignee, s_team, <<>>))}
            ELSE {}
    IN  IF StrTruthy(rule.team) /\ byAssignee = {}
        THEN {u \in ActiveUsers(table) :
                DepartmentIs(table[u], Replace(rule.team, s_team, <<>>))}
        ELSE byAssignee

\* a mutant of CandidateIds: the worker rule.assignee names is the
\* candidate, active or not
CandidateIdsNamedInactive(table, rule) ==
    LET named == {u \in DOMAIN table : table[u].username = rule.assignee}
        byAssignee ==
            IF StrTruthy(rule.assignee)
            THEN IF named # {}
                 THEN named
                 ELSE {u \in ActiveUsers(table) :
                         DepartmentIs(table[u],
                                      Replace(rule.assignee, s_team, <<>>))}
            ELSE {}
        byTeam ==
            IF StrTruthy(rule.team) /\ byAssignee = {}
            THEN {u \in ActiveUsers(table) :
                    DepartmentIs(table[u], Replace(rule.team, s_team, <<>>))}
            ELSE byAssignee
    IN  IF byTeam = {} THEN ActiveUsers(table) ELSE byTeam

\* candidate_users, as a set of user ids: the worker rule.assignee names if
\* active, else the active workers of the department rule.assignee names,
\* else those of the department rule.team names, else available_users
CandidateIds(table, rule) ==
    LET named == {u \in DOMAIN table : table[u].username = rule.assignee}
        byAssignee ==
            IF StrTruthy(rule.assignee)
            THEN IF \E u \in named : table[u].is_active
                 THEN named
                 ELSE {u \in ActiveUsers(table) :
                         DepartmentIs(table[u],
                                      Replace(rule.assignee, s_team, <<>>))}
            ELSE {}
        byTeam ==
            IF StrTruthy(rule.team) /\ byAssignee = {}
            THEN {u \in ActiveUsers(table) :
                    DepartmentIs(table[u], Replace(rule.team, s_team, <<>>))}
            ELSE byAssignee
    IN  IF byTeam = {} THEN ActiveUsers(table) ELSE byTeam

\* a mutant of ActiveCount: only the assignments in progress count
CountInProgressOnly(rows, u) ==
    Cardinality({i \in 1..Len(rows) :
                    /\ rows[i].user_id = u
                    /\ rows[i].status = "in_progress"})

\* a mutant of ActiveCount: every assignment of the worker counts
CountEveryStatus(rows, u) ==
    Cardinality({i \in 1..Len(rows) : rows[i].user_id = u})

\* db.query(DocumentAssignment).filter(user_id == user.id,
\*     status.in_(['assigned', 'in_progress'])).count()
ActiveCount(rows, u) ==
    Cardinality({i \in 1..Len(rows) :
                    /\ rows[i].user_id = u
                    /\ rows[i].status \in {"assigned", "in_progress"}})

\* context["doc_type"] in user_skills, under
\* if user.skills and context.get("doc_type"), user_skills being [] unless
\* user.skills is a list
SkillMatch(row, context) ==
    /\ JsonTruthy(row.skills)
    /\ JsonTruthy(context.doc_type)
    /\ row.skills.t = "list"
    /\ \E j \in 1..Len(row.skills.v) :
          /\ row.skills.v[j].t = context.doc_type.t
          /\ row.skills.v[j].v = context.doc_type.v

\* The doubles a / c + (-0.2) that differ from the double nearest to the
\* exact a/c - 1/5, for 0 <= a <= 12 and 1 <= c <= 10 (IEEE 754 binary64,
\* round to nearest even): below it, and above it.  Every other sum of that
\* range is the nearest double itself.
SumRoundsBelow ==
    {<<1, 3>>, <<2, 3>>, <<8, 3>>, <<11, 3>>, <<1, 4>>, <<3, 5>>, <<12, 5>>,
     <<1, 6>>, <<2, 6>>, <<4, 6>>, <<1, 7>>, <<2, 7>>, <<3, 7>>, <<4, 7>>,
     <<6, 7>>, <<1, 8>>, <<2, 8>>, <<1, 9>>, <<2, 9>>, <<3, 9>>, <<4, 9>>,
     <<6, 9>>, <<3, 10>>, <<6, 10>>, <<7, 10>>}

SumRoundsAbove ==
    {<<5, 3>>, <<4, 5>>, <<8, 5>>, <<7, 6>>, <<10, 6>>, <<9, 7>>, <<10, 9>>,
     <<11, 9>>, <<8, 10>>, <<11, 10>>}

Max(a, b) == IF a >= b THEN a ELSE b

\* a mutant of EffectiveWorkload: a skill match adds to the load
EffectiveWorkloadPenalty(active, capacity, skilled) ==
    LET c == Max(capacity, 1) IN
    [n |-> 5 * active + (IF skilled THEN c ELSE 0), d |-> 5 * c, e |-> 0]

\* effective_workload = active_assignments / max(user.workload_capacity, 1)
\*                      + skills_bonus
\* as the double it is: the exact value n/d, and e, the side on which the
\* double lies of the double nearest to n/d
EffectiveWorkload(active, capacity, skilled) ==
    LET c == Max(capacity, 1) IN
    [n |-> 5 * active - (IF skilled THEN c ELSE 0),
     d |-> 5 * c,
     e |-> IF ~skilled THEN 0
           ELSE IF <<active, c>> \in SumRoundsBelow THEN -1
           ELSE IF <<active, c>> \in SumRoundsAbove THEN 1
           ELSE 0]

\* a mutant of WorkloadLess: the comparison is inverted
WorkloadMore(x, y) ==
    \/ x.n * y.d > y.n * x.d
    \/ x.n * y.d = y.n * x.d /\ x.e > y.e

\* x < y of two such doubles
WorkloadLess(x, y) ==
    \/ x.n * y.d < y.n * x.d
    \/ x.n * y.d = y.n * x.d /\ x.e < y.e

\* a mutant of ScanCandidates: a candidate of equal load replaces the best
RECURSIVE ScanCandidatesLastWins(_, _, _, _, _, _)
ScanCandidatesLastWins(table, rows, context, pool, i, best) ==
    IF i > Len(pool) THEN best
    ELSE LET u == pool[i]
             w == EffectiveWorkload(ActiveCount(rows, u),
                                    table[u].workload_capacity,
                                    SkillMatch(table[u], context))
         IN  IF best.user = "none" \/ ~WorkloadLess(best.workload, w)
             THEN ScanCandidatesLastWins(table, rows, context, pool, i + 1,
                                         [user |-> u, workload |-> w])
             ELSE ScanCandidatesLastWins(table, rows, context, pool, i + 1,
                                         best)

\* for user in candidate_users: ... if effective_workload < lowest_workload:
\* best_user = user.  best.user = "none" stands for best_user = None, with
\* lowest_workload = float('inf')
RECURSIVE ScanCandidates(_, _, _, _, _, _)
ScanCandidates(table, rows, context, pool, i, best) ==
    IF i > Len(pool) THEN best
    ELSE LET u == pool[i]
             w == EffectiveWorkload(ActiveCount(rows, u),
                                    table[u].workload_capacity,
                                    SkillMatch(table[u], context))
         IN  IF best.user = "none" \/ WorkloadLess(w, best.workload)
             THEN ScanCandidates(table, rows, context, pool, i + 1,
                                 [user |-> u, workload |-> w])
             ELSE ScanCandidates(table, rows, context, pool, i + 1, best)

NoBest == [user |-> "none", workload |-> [n |-> 0, d |-> 1, e |-> 0]]

\* a mutant of find_best_assignee: the check of available_users is missing
\* and the candidates are all the workers, active or not
FindAmongAllWorkers(table, rows, rule, context, userOrder) ==
    LET pool == userOrder IN
    [pool |-> pool,
     best |-> ScanCandidates(table, rows, context, pool, 1, NoBest)]

\* a mutant of find_best_assignee: a worker at or above workload_capacity
\* is no candidate
FindBelowCapacity(table, rows, rule, context, userOrder) ==
    IF ActiveUsers(table) = {}
    THEN [pool |-> <<>>, best |-> NoBest]
    ELSE LET pool == SelectIds(userOrder,
                               {u \in CandidateIds(table, rule) :
                                   ActiveCount(rows, u)
                                       < table[u].workload_capacity}) IN
         [pool |-> pool,
          best |-> ScanCandidates(table, rows, context, pool, 1, NoBest)]

\* _find_best_assignee(rule, context, db); userOrder is the order in which
\* the queries of this call return the rows of users
find_best_assignee(table, rows, rule, context, userOrder) ==
    IF ActiveUsers(table) = {}
    THEN [pool |-> <<>>, best |-> NoBest]
    ELSE LET pool == SelectIds(userOrder, CandidateIds(table, rule)) IN
         [pool |-> pool,
          best |-> ScanCandidates(table, rows, context, pool, 1, NoBest)]

---------------------------------------------------------------------------
(* DocumentRouter.route_document and process_routing_message               *)

\* completed_at IS NULL
NoTime == -1

\* a mutant of NewAssignment: the priority is not passed on and the row
\* gets the column's default
NewAssignmentDefaultPriority(rows, msg, user, utcnow) ==
    [id |-> Len(rows) + 1,
     doc_id |-> msg.document_id,
     user_id |-> user,
     assigned_by |-> "routing_engine",
     status |-> "assigned",
     priority |-> 1,
     due_date |-> calculate_due_date(msg.priority, msg.doc_type, utcnow),
     completed_at |-> -1,
     created_at |-> utcnow]

\* DocumentAssignment(doc_id, user_id, assigned_by="routing_engine",
\*     status="assigned", priority, due_date); id and created_at are the
\* table's autoincrement and server_default=func.now()
NewAssignment(rows, msg, user, utcnow) ==
    [id |-> Len(rows) + 1,
     doc_id |-> msg.document_id,
     user_id |-> user,
     assigned_by |-> "routing_engine",
     status |-> "assigned",
     priority |-> msg.priority,
     due_date |-> calculate_due_date(msg.priority, msg.doc_type, utcnow),
     completed_at |-> NoTime,
     created_at |-> utcnow]

\* notification_message of process_routing_message
Notification(msg, row, username, rule) ==
    [document_id |-> msg.document_id,
     assignment_id |-> row.id,
     assigned_to |-> username,
     doc_type |-> msg.doc_type,
     priority |-> msg.priority,
     routing_reason |-> <<"Matched rule: ">> \o rule.name]

NoRule == [name |-> <<>>, assignee |-> Null, team |-> Null, priority |-> 0]

\* the record of a call that has not got anywhere yet
Blank(msg, fault) ==
    [msg |-> msg, fault |-> fault, utcnow |-> now, outcome |-> "none",
     ruleOrder |-> <<>>,
     examined |-> 0, matched |-> "none", rule |-> NoRule, pool |-> <<>>,
     assignee |-> "none", assignment_id |-> 0]

\* The places where a call may raise: fault names the first operation of
\* the call that raises, "none" when none does.
FaultPoints ==
    {"none", "query_document", "query_rules", "query_users",
     "count_assignments", "commit_assignment", "commit_status", "publish"}

\* what a call leaves: its record, the two tables and the queue
Effect(rec, rows, docs, queue) ==
    [last |-> rec, rows |-> rows, docs |-> docs, queue |-> queue]

\* a call that ends with the tables and the queue as they were
NoEffect(rec, outcome) ==
    Effect([rec EXCEPT !.outcome = outcome], assignments, documents, published)

\* route_document from db.add(assignment) on, and what
\* process_routing_message does with its result: db.commit() of the
\* assignment, document.status = 'routed' with its db.commit(), and
\* mq.publish_message("notifications", ...), whose exception is swallowed
Persist(msg, fault, rec, row, note) ==
    IF fault = "commit_assignment" THEN NoEffect(rec, "error")
    ELSE IF fault = "commit_status"
    THEN Effect([rec EXCEPT !.outcome = "error"],
                Append(assignments, row), documents, published)
    ELSE Effect([rec EXCEPT !.outcome = "routed"],
                Append(assignments, row),
                [documents EXCEPT ![msg.document_id] = "routed"],
                IF fault = "publish" THEN published
                ELSE Append(published, note))

\* route_document once _find_best_assignee has returned found
WithAssignee(msg, fault, rec, found) ==
    IF fault = "count_assignments" /\ found.pool # <<>>
    THEN NoEffect([rec EXCEPT !.pool = found.pool], "error")
    ELSE IF found.best.user = "none"
    THEN NoEffect([rec EXCEPT !.pool = found.pool], "no_route")
    ELSE Persist(msg, fault,
                 [rec EXCEPT !.pool = found.pool,
                             !.assignee = found.best.user,
                             !.assignment_id = Len(assignments) + 1],
                 NewAssignment(assignments, msg, found.best.user, now),
                 Notification(msg,
                              NewAssignment(assignments, msg, found.best.user,
                                            now),
                              users[found.best.user].username, rec.rule))

\* route_document once the rule is chosen: rec.rule is matched_rule
WithRule(msg, fault, context, userOrder, rec) ==
    IF fault = "query_users" THEN NoEffect(rec, "error")
    ELSE WithAssignee(msg, fault, rec,
                      find_best_assignee(users, assignments, rec.rule, context,
                                         userOrder))

\* route_document once the rules are scanned; "if not matched_rule" takes
\* the default rule
WithScan(msg, fault, context, ruleOrder, userOrder, scan) ==
    WithRule(msg, fault, context, userOrder,
             [Blank(msg, fault) EXCEPT
                 !.ruleOrder = ruleOrder,
                 !.examined = scan.examined,
                 !.matched = IF scan.matched = "none" THEN "default"
                             ELSE scan.matched,
                 !.rule = IF scan.matched = "none"
                          THEN get_default_routing_rule(msg.doc_type)
                          ELSE RuleShape(rules[scan.matched])])

\* route_document(document_id, doc_type, confidence, entities, risk_score,
\* priority, db), ruleOrder being the result of its query of the rules
route_document(msg, fault, context, ruleOrder, userOrder) ==
    IF fault = "query_rules" THEN NoEffect(Blank(msg, fault), "error")
    ELSE WithScan(msg, fault, context, ruleOrder, userOrder,
                  ScanRules(rules, ruleOrder, 1, context))

\* One call of process_routing_message(ch, method, properties, body): what
\* it leaves in the tables and on the queue.  outcome is "not_found" (the
\* document is unknown), "no_route" (route_document returned None),
\* "routed" (it returned a result), or "error" (an exception reached one of
\* the except clauses).
Handle(msg, ruleOrder, userOrder, fault) ==
    IF fault = "query_document" THEN NoEffect(Blank(msg, fault), "error")
    ELSE IF msg.document_id \notin DOMAIN documents
    THEN NoEffect(Blank(msg, fault), "not_found")
    ELSE route_document(msg, fault, BuildContext(msg), ruleOrder, userOrder)

\* The consumer takes one message of the queue "classification_results".
process_routing_message(messages, faults, limit) ==
    /\ delivered < limit
    /\ \E ruleOrder \in RuleQueryResults(rules), userOrder \in Orders(DOMAIN users) :
       \E msg \in messages, fault \in faults :
          \E h \in {Handle(msg, ruleOrder, userOrder, fault)} :
          /\ last' = h.last
          /\ assignments' = h.rows
          /\ documents' = h.docs
          /\ published' = h.queue
    /\ delivered' = delivered + 1
    /\ UNCHANGED <<users, rules, now, evalVars, otherVars>>

---------------------------------------------------------------------------
(* DocumentRouter.get_routing_statistics                                   *)

Statuses == {"assigned", "in_progress", "completed", "overdue"}

\* db.query(DocumentAssignment).filter(status == status).count()
StatusCount(rows, status) ==
    Cardinality({i \in 1..Len(rows) : rows[i].status = status})

\* the rows with status 'completed' and completed_at IS NOT NULL
CompletedRows(rows) ==
    {i \in 1..Len(rows) :
        rows[i].status = "completed" /\ rows[i].completed_at # NoTime}

\* total_time over the rows of ids, in tenths of an hour
RECURSIVE TotalTime(_, _)
TotalTime(rows, ids) ==
    IF ids = {} THEN 0
    ELSE LET i == CHOOSE j \in ids : TRUE IN
         rows[i].completed_at - rows[i].created_at
             + TotalTime(rows, ids \ {i})

\* get_routing_statistics(db).  The counts and the total time are computed
\* as the code computes them; then the expression db.func.count(...) of
\* the user_workloads query is evaluated on db, a sqlalchemy.orm.Session,
\* which has no attribute func: AttributeError is raised before the
\* query is built, the return statement is not reached and the values
\* computed so far are lost.
get_routing_statistics(rows, table) ==
    LET total_assignments == Len(rows)
        status_counts == [status \in Statuses |-> StatusCount(rows, status)]
        completed_assignments == CompletedRows(rows)
        total_time == TotalTime(rows, completed_assignments)
    IN  [done |-> TRUE, outcome |-> "AttributeError"]

---------------------------------------------------------------------------
(* The data the specifications start from                                  *)

MaxDeliveries == 1
MaxLoadDeliveries == 2
MaxTypeDeliveries == 1
MaxInitLoad == 5
MaxClock == 2
MaxConditionItems == 2

s_alice == <<"a","l","i","c","e">>
s_bob == <<"b","o","b">>
s_carol == <<"c","a","r","o","l">>
s_finance == <<"f","i","n","a","n","c","e">>
s_memo == <<"m","e","m","o">>
s_ops_team == <<"o","p","s">> \o s_team

\* rows of users: two workers of the department legal, one of finance, none
\* of admin, management or ops
BaseUsers ==
    [u1 |-> [username |-> s_alice, department |-> s_legal,
             skills |-> JList(<<JStr(s_contract)>>),
             workload_capacity |-> 10, is_active |-> TRUE],
     u2 |-> [username |-> s_bob, department |-> s_legal,
             skills |-> JNull,
             workload_capacity |-> 5, is_active |-> TRUE],
     u3 |-> [username |-> s_carol, department |-> s_finance,
             skills |-> JList(<<JStr(s_invoice)>>),
             workload_capacity |-> 10, is_active |-> TRUE]]

\* rows of routing_rules: a rule that names a worker directly, one that
\* names a team as its assignee, one that names a team in its team field
\* only, and one whose assignee is a team without workers
BaseRules ==
    [r1 |-> [name |-> <<"contracts-to-alice">>,
             condition |-> JDict(<< <<"doc_type",
                                      JStr(<<"C","O","N","T","R","A","C","T">>)>> >>),
             assignee |-> s_alice, team |-> s_finance_team,
             priority |-> 5, is_active |-> TRUE],
     r2 |-> [name |-> <<"urgent-to-legal">>,
             condition |-> JDict(<< <<"priority",
                                      JDict(<< <<"gte", JNum(4)>> >>)>> >>),
             assignee |-> s_legal_team, team |-> Null,
             priority |-> 3, is_active |-> TRUE],
     r3 |-> [name |-> <<"invoices-to-finance">>,
             condition |-> JDict(<< <<"doc_type", JStr(s_invoice)>>,
                                    <<"confidence",
                                      JDict(<< <<"gt", JNum(50)>> >>)>> >>),
             assignee |-> Null, team |-> s_finance_team,
             priority |-> 3, is_active |-> TRUE],
     r4 |-> [name |-> <<"catch-all">>,
             condition |-> JDict(<<>>),
             assignee |-> s_ops_team, team |-> s_legal_team,
             priority |-> 1, is_active |-> TRUE]]

\* the tables with the is_active flags set as flags says
WithFlags(table, flags) ==
    [k \in DOMAIN table |-> [table[k] EXCEPT !.is_active = flags[k]]]

\* an assignment made before the specification starts, for document d0
SeedRow(user, status) ==
    [id |-> 0, doc_id |-> "d0", user_id |-> user,
     assigned_by |-> "routing_engine", status |-> status, priority |-> 3,
     due_date |-> 0, completed_at |-> IF status = "completed" THEN 0 ELSE NoTime,
     created_at |-> 0]

\* n rows of a worker in the statuses that count as active
RECURSIVE ActiveRows(_, _)
ActiveRows(user, n) ==
    IF n = 0 THEN <<>>
    ELSE Append(ActiveRows(user, n - 1),
                SeedRow(user, IF n % 2 = 1 THEN "assigned" ELSE "in_progress"))

\* the rows numbered as the table numbers them
Numbered(rows) == [i \in 1..Len(rows) |-> [rows[i] EXCEPT !.id = i]]

SeedRows ==
    Numbered(ActiveRows("u1", 2) \o <<SeedRow("u1", "completed")>>
             \o ActiveRows("u3", 1) \o <<SeedRow("u3", "overdue")>>)

SeedDocuments == [d0 |-> "routed", d1 |-> "classified", d2 |-> "classified"]

Entities ==
    JDict(<< <<"persons", JList(<<JStr(<<"A","l">>)>>)>>,
             <<"money", JList(<<>>)>> >>)

Message(document_id, doc_type, priority) ==
    [document_id |-> document_id, doc_type |-> doc_type, confidence |-> 90,
     entities |-> Entities, risk_score |-> 10, priority |-> priority]

NoLast == [Blank(Message("d0", <<>>, 0), "none") EXCEPT !.utcnow = 0]

NoEval == [done |-> FALSE, value |-> FALSE]

\* the engine's instances that consume the queue "classification_results"
Consumers == {"c1", "c2"}

\* a consumer between two messages
Idle ==
    [pc |-> "idle", msg |-> Message("d0", <<>>, 0), doc_status |-> "none",
     outcome |-> "none", matched |-> "none", rule |-> NoRule, pool |-> <<>>,
     idx |-> 0, best |-> NoBest, assignment_id |-> 0]

NoCalls == [c \in Consumers |-> Idle]

NoStats == [done |-> FALSE]

---------------------------------------------------------------------------
(* Spec: rule selection and candidate pools.  Any of the rules and of the   *)
(* workers may be inactive.                                                 *)

Messages ==
    {Message("d1", t, p) : t \in {s_contract, s_invoice, s_memo}, p \in {1, 5}}
    \cup {Message("dX", s_contract, 1)}

Init ==
    /\ users \in {WithFlags(BaseUsers, f) : f \in [DOMAIN BaseUsers -> BOOLEAN]}
    /\ rules \in {WithFlags(BaseRules, f) : f \in [DOMAIN BaseRules -> BOOLEAN]}
    /\ documents = SeedDocuments
    /\ assignments = SeedRows
    /\ published = <<>>
    /\ now = 0
    /\ delivered = 0
    /\ last = NoLast
    /\ cond = JNull
    /\ ctx = <<>>
    /\ evalOut = NoEval
    /\ calls = NoCalls
    /\ stats = NoStats

Route == process_routing_message(Messages, {"none"}, MaxDeliveries)

Next == Route

Spec == Init /\ [][Next]_vars

---------------------------------------------------------------------------
(* SpecLoad: load balancing.  Two active workers of one department, of any  *)
(* capacity, skill and load; no rule, so the default mapping sends a        *)
(* contract to their department and a memo to a team without workers.       *)

LoadCapacities == {0, 5, 10}

LoadSkills == {JNull, JList(<<JStr(s_contract)>>)}

LoadUser(username, capacity, skills) ==
    [username |-> username, department |-> s_legal, skills |-> skills,
     workload_capacity |-> capacity, is_active |-> TRUE]

LoadMessages == {Message("d1", s_contract, 1), Message("d2", s_memo, 1)}

InitLoad ==
    /\ \E c1, c2 \in LoadCapacities, k1, k2 \in LoadSkills :
          users = [u1 |-> LoadUser(s_alice, c1, k1),
                   u2 |-> LoadUser(s_bob, c2, k2)]
    /\ rules = <<>>
    /\ documents = SeedDocuments
    /\ \E n1, n2 \in 0..MaxInitLoad :
          assignments =
              Numbered(ActiveRows("u1", n1) \o <<SeedRow("u1", "completed")>>
                       \o ActiveRows("u2", n2) \o <<SeedRow("u2", "overdue")>>)
    /\ published = <<>>
    /\ now = 0
    /\ delivered = 0
    /\ last = NoLast
    /\ cond = JNull
    /\ ctx = <<>>
    /\ evalOut = NoEval
    /\ calls = NoCalls
    /\ stats = NoStats

RouteLoad == process_routing_message(LoadMessages, {"none"}, MaxLoadDeliveries)

NextLoad == RouteLoad

SpecLoad == InitLoad /\ [][NextLoad]_vars

---------------------------------------------------------------------------
(* SpecTypes: every document type and priority, at any time of the clock.   *)

AllTypes ==
    {s_contract, s_invoice, s_legal, s_financial, s_hr, s_technical,
     s_report, s_correspondence, s_memo}

\* every type at the two ends of the priority scale, and two types at every
\* priority, two outside 1..5 included
TypeMessages ==
    {Message("d1", t, p) : t \in AllTypes, p \in {1, 5}}
    \cup {Message("d1", t, p) : t \in {s_legal, s_memo}, p \in 0..6}

TypeRuleFlags ==
    {[r \in DOMAIN BaseRules |-> FALSE],
     [r \in DOMAIN BaseRules |-> r = "r1"],
     [r \in DOMAIN BaseRules |-> r = "r2"]}

InitTypes ==
    /\ users = [u \in {"u1", "u3"} |-> BaseUsers[u]]
    /\ rules \in {WithFlags(BaseRules, f) : f \in TypeRuleFlags}
    /\ documents = SeedDocuments
    /\ assignments = SeedRows
    /\ published = <<>>
    /\ now = 0
    /\ delivered = 0
    /\ last = NoLast
    /\ cond = JNull
    /\ ctx = <<>>
    /\ evalOut = NoEval
    /\ calls = NoCalls
    /\ stats = NoStats

RouteTypes == process_routing_message(TypeMessages, {"none"}, MaxTypeDeliveries)

\* time passes
Tick ==
    /\ now < MaxClock
    /\ now' = now + 1
    /\ UNCHANGED <<users, rules, documents, assignments, published, delivered,
                   last, evalVars, otherVars>>

NextTypes == RouteTypes \/ Tick

SpecTypes == InitTypes /\ [][NextTypes]_vars

---------------------------------------------------------------------------
(* SpecEval: the condition evaluator alone, on conditions of up to          *)
(* MaxConditionItems constraints and contexts that hold some of the fields  *)
(* the conditions name.                                                     *)

EvalFields == {"doc_type", "priority", "department"}

EvalContextFields == {"doc_type", "priority"}

EvalExpected ==
    {JStr(<<"L","E","G">>),
     JNum(3),
     JDict(<< <<"gte", JNum(3)>> >>),
     JDict(<< <<"gt", JNum(1)>>, <<"lt", JNum(3)>> >>),
     JDict(<< <<"contains", JStr(<<"a","l">>)>> >>),
     JDict(<< <<"contains", JNum(3)>> >>),
     JDict(<< <<"lt", JStr(<<"x">>)>> >>),
     JDict(<<>>),
     JDict(<< <<"eq", JNum(3)>> >>),
     JList(<<JStr(<<"L","E","G">>)>>),
     JNull}

EvalValues ==
    {JStr(<<"L","e","g","a","l">>), JNum(2), JNum(3),
     JList(<<JNum(3), JStr(<<"A","l">>)>>), JNull}

\* the dicts of n constraints on distinct fields
EvalItemSeqs(n) ==
    {items \in [1..n -> EvalFields \X EvalExpected] :
        \A i, j \in 1..n : items[i][1] = items[j][1] => i = j}

EvalConditions ==
    {JDict(items) : items \in UNION {EvalItemSeqs(n) : n \in 0..MaxConditionItems}}
    \cup {JNull, JList(<<>>)}

EvalContexts ==
    UNION {[fields -> EvalValues] : fields \in SUBSET EvalContextFields}

InitEval ==
    /\ cond \in EvalConditions
    /\ ctx \in EvalContexts
    /\ evalOut = NoEval
    /\ calls = NoCalls
    /\ stats = NoStats
    /\ users = <<>>
    /\ rules = <<>>
    /\ documents = <<>>
    /\ assignments = <<>>
    /\ published = <<>>
    /\ now = 0
    /\ delivered = 0
    /\ last = NoLast

\* one call of _evaluate_rule_condition(condition, context)
Evaluate ==
    /\ ~evalOut.done
    /\ evalOut' = [done |-> TRUE, value |-> evaluate_rule_condition(cond, ctx)]
    /\ UNCHANGED <<cond, ctx, routingVars, otherVars>>

NextEval == Evaluate

SpecEval == InitEval /\ [][NextEval]_vars

---------------------------------------------------------------------------
(* Properties                                                               *)

\* route_document returned: a result ("routed") or None ("no_route")
Returned == last.outcome \in {"routed", "no_route"}

Range(seq) == {seq[i] : i \in DOMAIN seq}

\* the latest message's context, and whether a stored rule matches it
LastContext == BuildContext(last.msg)

Matches(r) == evaluate_rule_condition(rules[r].condition, LastContext)

ActiveRules == {r \in DOMAIN rules : rules[r].is_active}

\* C1: route_document selects, among the active rules in descending
\* priority order, the first rule whose condition the evaluator accepts and
\* examines no later rule; an inactive rule is never selected; when an
\* active priority-5 rule and an active priority-3 rule both match, the
\* priority-5 rule is selected.
C1_FirstMatchingRule ==
    Returned =>
        LET order == last.ruleOrder IN
        /\ Range(order) = ActiveRules
        /\ \A i, j \in DOMAIN order :
              i < j => rules[order[i]].priority >= rules[order[j]].priority
        /\ IF last.matched = "default"
           THEN /\ \A r \in ActiveRules : ~Matches(r)
                /\ last.examined = Len(order)
           ELSE /\ last.matched \in ActiveRules
                /\ Matches(last.matched)
                /\ last.examined \in DOMAIN order
                /\ order[last.examined] = last.matched
                /\ \A i \in 1..(last.examined - 1) : ~Matches(order[i])
                /\ \A r \in ActiveRules :
                      rules[r].priority > rules[last.matched].priority
                          => ~Matches(r)
                /\ last.rule = RuleShape(rules[last.matched])
        /\ \A a, b \in ActiveRules :
              /\ rules[a].priority = 5 /\ rules[b].priority = 3
              /\ Matches(a) /\ Matches(b)
              => last.matched = a

\* a priority-5 rule is selected although an active priority-3 rule matches
\* too, and an inactive rule that matches is passed over
C1_Witness ==
    /\ Returned
    /\ last.matched = "r1"
    /\ rules["r2"].is_active /\ Matches("r2")
    /\ ~rules["r4"].is_active /\ Matches("r4")
    /\ last.examined = 1

\* the team of the claim's mapping: six types, every other type to admin
C2_ClaimedTeam(doc_type) ==
    CASE doc_type = s_contract -> s_legal_team
      [] doc_type = s_invoice -> s_finance_team
      [] doc_type = s_hr -> s_hr_team
      [] doc_type = s_technical -> s_engineering_team
      [] doc_type = s_report -> s_management_team
      [] doc_type = s_correspondence -> s_admin_team
      [] OTHER -> s_admin_team

\* the same with legal and financial mapped as well
C2_AmendedTeam(doc_type) ==
    CASE doc_type = s_legal -> s_legal_team
      [] doc_type = s_financial -> s_finance_team
      [] OTHER -> C2_ClaimedTeam(doc_type)

\* the candidates of a team: its department's active workers, or every
\* active worker when it has none
C2_TeamPool(team) ==
    LET members == {u \in ActiveUsers(users) :
                       users[u].department = Replace(team, s_team, <<>>)}
    IN  IF members = {} THEN ActiveUsers(users) ELSE members

\* C2 as claimed: when no active rule matches, the team is that of the
\* six-entry mapping and admin-team for every type it does not list.
C2_AsClaimed ==
    (Returned /\ last.matched = "default")
        => last.rule.team = C2_ClaimedTeam(last.msg.doc_type)

\* C2, amended: when no active rule matches the document (an empty rule set
\* included), and only then, routing falls back to the built-in mapping
\* contract, legal -> legal-team, invoice, financial -> finance-team,
\* hr -> hr-team, technical -> engineering-team, report -> management-team,
\* correspondence -> admin-team, any other type -> admin-team; the
\* synthesized rule has priority 1 and assignee selection runs on that team.
C2_DefaultMapping ==
    Returned =>
        /\ (last.matched = "default") <=> (\A r \in ActiveRules : ~Matches(r))
        /\ last.matched = "default" =>
              /\ last.rule.team = C2_AmendedTeam(last.msg.doc_type)
              /\ last.rule.assignee = last.rule.team
              /\ last.rule.priority = 1
              /\ Range(last.pool) = C2_TeamPool(last.rule.team)
              /\ last.outcome = "routed" => last.assignee \in Range(last.pool)

\* with no active rule at all, a document of a type the mapping lacks is
\* routed by the default rule for admin-team
C2_Witness ==
    /\ ActiveRules = {}
    /\ last.outcome = "routed"
    /\ last.matched = "default"
    /\ last.msg.doc_type = s_memo
    /\ last.rule.team = s_admin_team

\* C3: if no worker is active, route_document returns NoRoute for every
\* document and rule set, and the assignments are what they were before
\* the call.
C3_NoActiveWorker ==
    [][(/\ ActiveUsers(users) = {}
        /\ delivered' = delivered + 1
        /\ last'.outcome # "not_found")
       => (last'.outcome = "no_route" /\ assignments' = assignments)]_vars

\* a call that found every worker inactive and an active rule that matches
C3_Witness ==
    /\ ActiveUsers(users) = {}
    /\ last.outcome = "no_route"
    /\ last.matched = "r1"
    /\ assignments = SeedRows

\* the assignments as the latest call found them
RowsBefore == SubSeq(assignments, 1, last.assignment_id - 1)

\* the worker's assignments in status assigned or in_progress, before the
\* latest call
ActiveBefore(u) ==
    Cardinality({i \in DOMAIN RowsBefore :
                    /\ RowsBefore[i].user_id = u
                    /\ RowsBefore[i].status \in {"assigned", "in_progress"}})

Capacity(u) ==
    IF users[u].workload_capacity >= 1 THEN users[u].workload_capacity ELSE 1

\* the worker's declared skill list contains the latest document's type
Skilled(u) ==
    /\ users[u].skills.t = "list"
    /\ \E j \in DOMAIN users[u].skills.v :
          /\ users[u].skills.v[j].t = "str"
          /\ users[u].skills.v[j].v = last.msg.doc_type

\* effective load a <= effective load b, the loads being the fractions
\* ActiveBefore / Capacity - (1/5 if Skilled), compared exactly
LoadAtMost(a, b) ==
    (5 * ActiveBefore(a) - (IF Skilled(a) THEN Capacity(a) ELSE 0))
        * (5 * Capacity(b))
    <= (5 * ActiveBefore(b) - (IF Skilled(b) THEN Capacity(b) ELSE 0))
        * (5 * Capacity(a))

\* C4: the selector returns a candidate of minimal effective load, the load
\* being (assignments in status assigned or in_progress) /
\* max(workload_capacity, 1), minus 0.2 on a skill match; of two candidates
\* of equal capacity without a skill match that hold 2 and 5 active
\* assignments, the one that holds 5 does not get the assignment.
C4_LeastLoaded ==
    last.outcome = "routed" =>
        /\ last.assignee \in Range(last.pool)
        /\ \A u \in Range(last.pool) : LoadAtMost(last.assignee, u)
        /\ \A a, b \in Range(last.pool) :
              /\ Capacity(a) = Capacity(b)
              /\ ~Skilled(a) /\ ~Skilled(b)
              /\ ActiveBefore(a) = 2 /\ ActiveBefore(b) = 5
              => last.assignee = a \/ last.assignee \notin {a, b}

\* two workers of capacity 10 without a skill match, bob with 2 and alice
\* with 5 active assignments (and one completed, one overdue): bob gets it
C4_Witness ==
    /\ last.outcome = "routed"
    /\ Range(last.pool) = {"u1", "u2"}
    /\ users["u1"].workload_capacity = 10 /\ users["u2"].workload_capacity = 10
    /\ ~Skilled("u1") /\ ~Skilled("u2")
    /\ ActiveBefore("u1") = 5 /\ ActiveBefore("u2") = 2
    /\ last.pool[1] = "u1"
    /\ last.assignee = "u2"

\* the raw ratio of s exceeds that of u by less than (more than) 0.2:
\* ActiveBefore(s)/Capacity(s) - ActiveBefore(u)/Capacity(u) against 1/5
ExcessBelowBonus(s, u) ==
    5 * (ActiveBefore(s) * Capacity(u) - ActiveBefore(u) * Capacity(s))
        < Capacity(s) * Capacity(u)

ExcessAboveBonus(s, u) ==
    5 * (ActiveBefore(s) * Capacity(u) - ActiveBefore(u) * Capacity(s))
        > Capacity(s) * Capacity(u)

\* C5: a skill match lowers the effective load by exactly 0.2: a skilled
\* candidate wins over an unskilled one whenever its raw ratio exceeds the
\* other's by less than 0.2, and loses when it exceeds it by more than 0.2.
C5_SkillBonus ==
    last.outcome = "routed" =>
        \A s, u \in Range(last.pool) :
            (Skilled(s) /\ ~Skilled(u)) =>
                /\ ExcessBelowBonus(s, u) => last.assignee # u
                /\ ExcessAboveBonus(s, u) => last.assignee # s

\* the skilled worker gets the contract although the unskilled one, first
\* in the pool, has the strictly lower raw ratio
C5_Witness ==
    /\ last.outcome = "routed"
    /\ last.pool = <<"u2", "u1">>
    /\ Skilled("u1") /\ ~Skilled("u2")
    /\ ActiveBefore("u1") * Capacity("u2") > ActiveBefore("u2") * Capacity("u1")
    /\ ActiveBefore("u2") > 0
    /\ ExcessBelowBonus("u1", "u2")
    /\ last.assignee = "u1"

\* the active workers the selected rule's assignee names
NamedWorkers ==
    {u \in ActiveUsers(users) :
        StrTruthy(last.rule.assignee) /\ users[u].username = last.rule.assignee}

\* C6: when the selected rule's assignee names an existing active worker,
\* the candidate pool is exactly that worker, who gets the assignment
\* whatever the loads, capacities and skills and whatever the rule's team.
C6_DirectAssignee ==
    Returned =>
        \A u \in NamedWorkers :
            /\ last.outcome = "routed"
            /\ last.pool = <<u>>
            /\ last.assignee = u
            /\ assignments[last.assignment_id].user_id = u

\* alice is named and gets the document, with two active assignments,
\* while bob has none and the rule's team is that of carol, who has fewer
C6_Witness ==
    /\ last.outcome = "routed"
    /\ last.matched = "r1"
    /\ last.rule.team = s_finance_team
    /\ users["u2"].is_active /\ users["u3"].is_active
    /\ ActiveBefore("u1") = 2 /\ ActiveBefore("u2") = 0 /\ ActiveBefore("u3") = 1
    /\ last.assignee = "u1"

\* the active workers of the department a team name stands for
Members(name) ==
    IF StrTruthy(name)
    THEN {u \in ActiveUsers(users) :
            users[u].department = Replace(name, s_team, <<>>)}
    ELSE {}

\* the department of the rule: that of its assignee read as a team or,
\* failing that, that of its team field
RuleMembers ==
    IF Members(last.rule.assignee) # {} THEN Members(last.rule.assignee)
    ELSE Members(last.rule.team)

\* C7: when the selected rule names no active worker directly and the
\* department of its assignee (read as a team) or, failing that, of its
\* team field has an active worker, the candidates are the active workers
\* of that department and one of them is assigned, no one else.
C7_TeamMembersOnly ==
    (Returned /\ NamedWorkers = {} /\ RuleMembers # {}) =>
        /\ last.outcome = "routed"
        /\ Range(last.pool) = RuleMembers
        /\ last.assignee \in RuleMembers
        /\ assignments[last.assignment_id].user_id = last.assignee

\* the rule's assignee is a team without workers and its team field names
\* legal: alice of legal gets the memo although carol of finance is less
\* loaded
C7_Witness ==
    /\ last.outcome = "routed"
    /\ last.matched = "r4"
    /\ Members(last.rule.assignee) = {}
    /\ last.msg.doc_type = s_memo
    /\ users["u3"].is_active /\ ~users["u2"].is_active
    /\ ~LoadAtMost("u1", "u3")
    /\ last.assignee = "u1"

\* C8: when the selected rule's assignee and team yield no active
\* candidate and some worker is active, the pool widens to all active
\* workers and an assignment is created.
C8_GlobalFallback ==
    (Returned /\ NamedWorkers = {} /\ RuleMembers = {}
        /\ ActiveUsers(users) # {}) =>
        /\ last.outcome = "routed"
        /\ Range(last.pool) = ActiveUsers(users)
        /\ last.assignee \in ActiveUsers(users)
        /\ Len(assignments) = last.assignment_id
        /\ assignments[last.assignment_id].user_id = last.assignee
        /\ assignments[last.assignment_id].doc_id = last.msg.document_id

\* a stored rule whose assignee is a team and whose team is NULL, the
\* team's workers all inactive: carol of finance gets the document
C8_Witness ==
    /\ last.outcome = "routed"
    /\ last.matched = "r2"
    /\ ~users["u1"].is_active /\ ~users["u2"].is_active
    /\ last.pool = <<"u3">>
    /\ last.assignee = "u3"

\* base hours by priority and modifiers by type, the modifiers in tenths
C9_BaseHours(priority) ==
    CASE priority = 5 -> 2
      [] priority = 4 -> 8
      [] priority = 3 -> 24
      [] priority = 2 -> 72
      [] priority = 1 -> 168
      [] OTHER -> 72

C9_ModifierTenths(doc_type) ==
    CASE doc_type \in {s_legal, s_contract} -> 5
      [] doc_type = s_invoice -> 7
      [] doc_type = s_financial -> 8
      [] doc_type \in {s_hr, s_correspondence} -> 10
      [] doc_type = s_technical -> 12
      [] doc_type = s_report -> 15
      [] OTHER -> 10

\* C9: the due date of a created assignment is now + base_hours(priority)
\* * modifier(doc_type) hours (here in tenths of an hour), 72 hours being
\* the base of any priority outside 1..5 and 1.0 the modifier of any other
\* type; priority 5 and type legal give now + 1 hour, priority 1 and type
\* report give now + 252 hours.
C9_DueDate ==
    last.outcome = "routed" =>
        LET row == assignments[last.assignment_id]
            priority == last.msg.priority
            doc_type == last.msg.doc_type
        IN  /\ row.due_date = last.utcnow + C9_BaseHours(priority)
                                            * C9_ModifierTenths(doc_type)
            /\ (priority = 5 /\ doc_type = s_legal)
                  => row.due_date = last.utcnow + 10
            /\ (priority = 1 /\ doc_type = s_report)
                  => row.due_date = last.utcnow + 2520
            /\ (priority \notin 1..5 /\ doc_type = s_memo)
                  => row.due_date = last.utcnow + 720

\* a legal document of priority 5 routed when the clock is not at its start
C9_Witness ==
    /\ last.outcome = "routed"
    /\ last.msg.priority = 5
    /\ last.msg.doc_type = s_legal
    /\ last.utcnow = 2
    /\ assignments[last.assignment_id].due_date = 12

\* the evaluator on the one constraint (field, expected) and a context that
\* holds value in that field
HoldsAlone(expected, value) ==
    evaluate_rule_condition(JDict(<< <<"field", expected>> >>),
                            [field |-> value])

\* C10: the evaluator returns true if and only if every top-level
\* constraint whose field is in the context is satisfied: the top-level
\* pairs are ANDed, the keys of one nested constraint object are ANDed, and
\* a constraint on a field the context lacks is skipped.
C10_Conjunction ==
    (evalOut.done /\ cond.t = "dict") =>
        /\ evalOut.value <=>
              \A i \in DOMAIN cond.v :
                  cond.v[i][1] \in DOMAIN ctx
                      => HoldsAlone(cond.v[i][2], ctx[cond.v[i][1]])
        /\ \A i \in DOMAIN cond.v :
              (cond.v[i][1] \in DOMAIN ctx /\ cond.v[i][2].t = "dict") =>
                  (HoldsAlone(cond.v[i][2], ctx[cond.v[i][1]]) <=>
                      \A j \in DOMAIN cond.v[i][2].v :
                          HoldsAlone(JDict(<<cond.v[i][2].v[j]>>),
                                     ctx[cond.v[i][1]]))

\* a condition of two constraints, one on a field the context lacks and one
\* that holds of a field it has, evaluates to true
C10_Witness ==
    /\ evalOut.done /\ evalOut.value
    /\ cond.t = "dict" /\ Len(cond.v) = 2
    /\ cond.v[1][1] \notin DOMAIN ctx
    /\ cond.v[1][2] = JNum(3)
    /\ cond.v[2][1] \in DOMAIN ctx
    /\ cond.v[2][2] = JDict(<< <<"gt", JNum(1)>>, <<"lt", JNum(3)>> >>)

\* the fields a condition names
NamedFields(condition) ==
    IF condition.t = "dict"
    THEN {condition.v[i][1] : i \in DOMAIN condition.v}
    ELSE {}

\* the contexts got from context by adding or changing one field outside
\* named, or by removing one
OtherContexts(context, named) ==
    {[f \in DOMAIN context \cup {g} |-> IF f = g THEN v ELSE context[f]] :
        g \in EvalFields \ named, v \in EvalValues}
    \cup {[f \in DOMAIN context \ {g} |-> context[f]] :
             g \in DOMAIN context \ named}

\* the condition with its keys in another order
Reordered(condition, order) ==
    JDict([i \in DOMAIN order |-> condition.v[order[i]]])

\* C11: the evaluator's result depends on the context only through the
\* fields the condition names: adding, removing or changing any other
\* field of the context leaves the result as it is; and the result is a
\* function of the pair (condition, context), the same in whatever order
\* the condition's keys are met.
C11_NamedFieldsOnly ==
    evalOut.done =>
        /\ \A other \in OtherContexts(ctx, NamedFields(cond)) :
              evaluate_rule_condition(cond, other) = evalOut.value
        /\ cond.t = "dict" =>
              \A order \in Orders(DOMAIN cond.v) :
                  evaluate_rule_condition(Reordered(cond, order), ctx)
                      = evalOut.value

\* a condition on doc_type alone holds of a context that has a priority
\* too, and fails once the doc_type itself is another value
C11_Witness ==
    /\ evalOut.done /\ evalOut.value
    /\ NamedFields(cond) = {"doc_type"}
    /\ DOMAIN ctx = {"doc_type", "priority"}
    /\ cond.v[1][2].t = "str"
    /\ ~evaluate_rule_condition(cond, [doc_type |-> JNum(2)])

\* C12: a successful routing decision adds exactly one assignment, for the
\* document of the message, with status 'assigned', assigned_by
\* 'routing_engine', the chosen worker, the inbound priority and the
\* computed due date; the assignments there were stay as they were, and so
\* do the rules and the workers.
C12_OneNewAssignment ==
    [][(delivered' = delivered + 1 /\ last'.outcome = "routed") =>
          /\ Len(assignments') = Len(assignments) + 1
          /\ SubSeq(assignments', 1, Len(assignments)) = assignments
          /\ LET row == assignments'[Len(assignments')] IN
             /\ row.doc_id = last'.msg.document_id
             /\ row.user_id = last'.assignee
             /\ row.user_id \in DOMAIN users
             /\ row.status = "assigned"
             /\ row.assigned_by = "routing_engine"
             /\ row.priority = last'.msg.priority
             /\ row.due_date = now + C9_BaseHours(last'.msg.priority)
                                     * C9_ModifierTenths(last'.msg.doc_type)
          /\ rules' = rules
          /\ users' = users]_vars

\* an invoice of priority 5 has been routed, its row added after the five
\* that were there
C12_Witness ==
    /\ last.outcome = "routed"
    /\ last.msg.priority = 5
    /\ last.msg.doc_type = s_invoice
    /\ Len(assignments) = Len(SeedRows) + 1
    /\ SubSeq(assignments, 1, Len(SeedRows)) = SeedRows
    /\ assignments[Len(assignments)].priority = 5
    /\ assignments[Len(assignments)].user_id = last.assignee

---------------------------------------------------------------------------
(* SpecSteps: process_routing_message statement by statement, run by the   *)
(* instances of the engine that consume the queue.  Each action is one      *)
(* statement that reads or writes the database or the queue, with the       *)
(* statements between it and the next.  A call is the record calls[c]: pc   *)
(* is the statement it is about to run, the other fields are its locals.    *)

MaxStepDeliveries == 2

\* a mutant of Found: a document that is routed already is passed over
FoundUnrouted(docs, msg) ==
    /\ msg.document_id \in DOMAIN docs
    /\ docs[msg.document_id] # "routed"

\* document = db.query(Document).filter(Document.id == document_id).first()
\* ... if not document: return
Found(docs, msg) == msg.document_id \in DOMAIN docs

\* a mutant of StatusAfterRoute: the status is set whatever the result
StatusAlways(docs, document_id, routing_result) ==
    [docs EXCEPT ![document_id] = "routed"]

\* if routing_result: document.status = 'routed'; db.commit()
StatusAfterRoute(docs, document_id, routing_result) ==
    IF routing_result THEN [docs EXCEPT ![document_id] = "routed"] ELSE docs

\* a mutant of Stage: the status is set before the assignment is committed
StageStatusFirst(after) ==
    CASE after = "select" -> "count"
      [] after = "count" -> "status"
      [] after = "status" -> "insert"
      [] after = "insert" -> "publish"
      [] after = "publish" -> "done"

\* a mutant of Stage: the notification is sent before the status is set
StagePublishFirst(after) ==
    CASE after = "select" -> "count"
      [] after = "count" -> "insert"
      [] after = "insert" -> "publish"
      [] after = "publish" -> "status"
      [] after = "status" -> "done"

\* the order of the statements of a call that routes its document: the
\* queries of route_document, the counts of _find_best_assignee, db.add
\* and db.commit of the assignment, document.status with its db.commit,
\* mq.publish_message
Stage(after) ==
    CASE after = "select" -> "count"
      [] after = "count" -> "insert"
      [] after = "insert" -> "status"
      [] after = "status" -> "publish"
      [] after = "publish" -> "done"

\* the call once the statement at its pc is done
Advance(call) ==
    [call EXCEPT !.pc = Stage(call.pc),
                 !.outcome = IF Stage(call.pc) = "done" THEN "routed" ELSE @]

\* the call once it has returned or an except clause has caught
Ended(call, outcome) == [call EXCEPT !.pc = "done", !.outcome = outcome]

\* the callback is entered with a message; the document is looked up
Receive(c, messages, limit) ==
    /\ calls[c].pc \in {"idle", "done"}
    /\ delivered < limit
    /\ \E msg \in messages :
          calls' = [calls EXCEPT ![c] =
                       IF Found(documents, msg)
                       THEN [Idle EXCEPT !.pc = "select", !.msg = msg,
                                         !.doc_status =
                                             documents[msg.document_id]]
                       ELSE Ended([Idle EXCEPT !.msg = msg], "not_found")]
    /\ delivered' = delivered + 1
    /\ UNCHANGED <<users, rules, documents, assignments, published, now,
                   last, evalVars, stats>>

\* route_document up to candidate_users: the query and scan of the rules,
\* the default rule, the queries of the users
SelectedCall(call, ruleOrder, userOrder, scan) ==
    LET rule == IF scan.matched = "none"
                THEN get_default_routing_rule(call.msg.doc_type)
                ELSE RuleShape(rules[scan.matched])
        pool == IF ActiveUsers(users) = {} THEN <<>>
                ELSE SelectIds(userOrder, CandidateIds(users, rule))
    IN  IF pool = <<>>
        THEN Ended([call EXCEPT !.matched = IF scan.matched = "none"
                                            THEN "default" ELSE scan.matched,
                                !.rule = rule],
                   "no_route")
        ELSE [call EXCEPT !.pc = Stage("select"),
                          !.matched = IF scan.matched = "none"
                                      THEN "default" ELSE scan.matched,
                          !.rule = rule, !.pool = pool, !.idx = 1]

Select(c) ==
    /\ calls[c].pc = "select"
    /\ \E ruleOrder \in RuleQueryResults(rules),
          userOrder \in Orders(DOMAIN users) :
          \E next \in {SelectedCall(calls[c], ruleOrder, userOrder,
                                    ScanRules(rules, ruleOrder, 1,
                                              BuildContext(calls[c].msg)))} :
             /\ calls' = [calls EXCEPT ![c] = next]
             /\ documents' = StatusAfterRoute(documents,
                                              calls[c].msg.document_id,
                                              next.outcome = "routed")
    /\ UNCHANGED <<users, rules, assignments, published, now, delivered,
                   last, evalVars, stats>>

\* one turn of the loop over candidate_users: the count of the candidate's
\* active assignments and the comparison with the lowest workload so far
Count(c) ==
    /\ calls[c].pc = "count"
    /\ calls' = [calls EXCEPT ![c] =
          [(IF @.idx = Len(@.pool) THEN Advance(@) ELSE @) EXCEPT
              !.idx = @ + 1,
              !.best = ScanCandidates(users, assignments,
                                      BuildContext(calls[c].msg),
                                      <<calls[c].pool[calls[c].idx]>>, 1,
                                      calls[c].best)]]
    /\ UNCHANGED <<users, rules, documents, assignments, published, now,
                   delivered, last, evalVars, stats>>

\* db.add(assignment); db.commit(); db.refresh(assignment)
Insert(c) ==
    /\ calls[c].pc = "insert"
    /\ assignments' = Append(assignments,
                             NewAssignment(assignments, calls[c].msg,
                                           calls[c].best.user, now))
    /\ calls' = [calls EXCEPT ![c] =
                    [Advance(@) EXCEPT !.assignment_id = Len(assignments) + 1]]
    /\ UNCHANGED <<users, rules, documents, published, now, delivered, last,
                   evalVars, stats>>

\* document.status = 'routed'; db.commit()
SetStatus(c) ==
    /\ calls[c].pc = "status"
    /\ documents' = StatusAfterRoute(documents, calls[c].msg.document_id, TRUE)
    /\ calls' = [calls EXCEPT ![c] = Advance(@)]
    /\ UNCHANGED <<users, rules, assignments, published, now, delivered,
                   last, evalVars, stats>>

\* mq.publish_message("notifications", notification_message)
Publish(c) ==
    /\ calls[c].pc = "publish"
    /\ published' = Append(published,
                           Notification(calls[c].msg,
                                        [id |-> calls[c].assignment_id],
                                        users[calls[c].best.user].username,
                                        calls[c].rule))
    /\ calls' = [calls EXCEPT ![c] = Advance(@)]
    /\ UNCHANGED <<users, rules, documents, assignments, now, delivered,
                   last, evalVars, stats>>

\* a mutant of PublishFails: the exception of publish_message reaches the
\* handler of the callback, which takes the routing back
PublishFailsUndoes(c) ==
    /\ calls[c].pc = "publish"
    /\ calls' = [calls EXCEPT ![c] = Ended(@, "error")]
    /\ documents' = [documents EXCEPT ![calls[c].msg.document_id] =
                                          calls[c].doc_status]
    /\ UNCHANGED <<users, rules, assignments, published, now, delivered,
                   last, evalVars, stats>>

\* publish_message raises; the exception is caught and printed
PublishFails(c) ==
    /\ calls[c].pc = "publish"
    /\ calls' = [calls EXCEPT ![c] = Advance(@)]
    /\ UNCHANGED <<users, rules, documents, assignments, published, now,
                   delivered, last, evalVars, stats>>

\* a mutant of Fail: a call whose commit raised starts over instead of
\* ending
FailRetries(c) ==
    /\ calls[c].pc \in {"select", "count", "insert", "status"}
    /\ calls' = [calls EXCEPT ![c] =
                    IF @.pc \in {"insert", "status"}
                    THEN [@ EXCEPT !.pc = "select"]
                    ELSE Ended(@, "error")]
    /\ UNCHANGED <<users, rules, documents, assignments, published, now,
                   delivered, last, evalVars, stats>>

\* a mutant of Fail: the row of a commit that raised stays in the table
FailLeavesRow(c) ==
    /\ calls[c].pc \in {"select", "count", "insert", "status"}
    /\ calls' = [calls EXCEPT ![c] = Ended(@, "error")]
    /\ assignments' =
          IF calls[c].pc = "insert"
          THEN Append(assignments,
                      NewAssignment(assignments, calls[c].msg,
                                    calls[c].best.user, now))
          ELSE assignments
    /\ UNCHANGED <<users, rules, documents, published, now, delivered, last,
                   evalVars, stats>>

\* the statement at pc raises (the store is unreachable, the commit is
\* refused): except Exception prints, finally db.close() rolls back what
\* the session has not committed
Fail(c) ==
    /\ calls[c].pc \in {"select", "count", "insert", "status"}
    /\ calls' = [calls EXCEPT ![c] = Ended(@, "error")]
    /\ UNCHANGED <<users, rules, documents, assignments, published, now,
                   delivered, last, evalVars, stats>>

StepMessages ==
    {Message("d1", s_contract, 5), Message("d2", s_memo, 1),
     Message("dX", s_contract, 1)}

InitSteps ==
    /\ users \in {WithFlags(BaseUsers, f) :
                    f \in {[u \in DOMAIN BaseUsers |-> u # "u3"],
                           [u \in DOMAIN BaseUsers |-> FALSE]}}
    /\ rules \in {WithFlags(BaseRules, f) :
                    f \in {[r \in DOMAIN BaseRules |-> r = "r2"],
                           [r \in DOMAIN BaseRules |-> FALSE]}}
    /\ documents = SeedDocuments
    /\ assignments = SeedRows
    /\ published = <<>>
    /\ now = 0
    /\ delivered = 0
    /\ last = NoLast
    /\ cond = JNull
    /\ ctx = <<>>
    /\ evalOut = NoEval
    /\ calls = NoCalls
    /\ stats = NoStats

NextSteps ==
    \E c \in Consumers :
        \/ Receive(c, StepMessages, MaxStepDeliveries)
        \/ Select(c)
        \/ Count(c)
        \/ Insert(c)
        \/ SetStatus(c)
        \/ Publish(c)
        \/ PublishFails(c)
        \/ Fail(c)

SpecSteps == InitSteps /\ [][NextSteps]_vars

\* the statement at which the callback of consumer c stands raises or
\* completes
Proceed(c) ==
    \/ Fail(c) \/ PublishFails(c)
    \/ Select(c) \/ Count(c) \/ Insert(c) \/ SetStatus(c) \/ Publish(c)

FairMessages == {Message("d1", s_contract, 5), Message("dX", s_contract, 1)}

InitFair ==
    /\ InitSteps
    /\ \A r \in DOMAIN rules : rules[r].is_active <=> r = "r2"

NextFair ==
    \E c \in Consumers :
        \/ Receive(c, FairMessages, MaxStepDeliveries)
        \/ Select(c)
        \/ Count(c)
        \/ Insert(c)
        \/ SetStatus(c)
        \/ Publish(c)
        \/ PublishFails(c)
        \/ Fail(c)

\* start_consuming runs each callback on the consumer's one thread, from its
\* first statement to its return: a callback that has a statement to run
\* runs it
SpecStepsFair ==
    InitFair /\ [][NextFair]_vars /\ \A c \in Consumers : WF_vars(Proceed(c))

---------------------------------------------------------------------------
(* SpecRace: the statements of SpecSteps, run by two consumers over a pool  *)
(* of two workers of equal capacity and equal load, without skills          *)

MaxRaceLoad == 1

RaceCapacities == {5, 10}

InitRace ==
    /\ \E c \in RaceCapacities :
          users = [u1 |-> LoadUser(s_alice, c, JNull),
                   u2 |-> LoadUser(s_bob, c, JNull)]
    /\ rules = <<>>
    /\ documents = SeedDocuments
    /\ \E n \in 0..MaxRaceLoad :
          assignments = Numbered(ActiveRows("u1", n) \o ActiveRows("u2", n))
    /\ published = <<>>
    /\ now = 0
    /\ delivered = 0
    /\ last = NoLast
    /\ cond = JNull
    /\ ctx = <<>>
    /\ evalOut = NoEval
    /\ calls = NoCalls
    /\ stats = NoStats

NextRace ==
    \E c \in Consumers :
        \/ Receive(c, LoadMessages, MaxStepDeliveries)
        \/ Select(c)
        \/ Count(c)
        \/ Insert(c)
        \/ SetStatus(c)
        \/ Publish(c)
        \/ PublishFails(c)
        \/ Fail(c)

SpecRace == InitRace /\ [][NextRace]_vars

---------------------------------------------------------------------------
(* SpecMalformed: routing over rules whose conditions are malformed         *)

\* m1: the condition is null; m2: a constraint that holds, then a bound
\* that cannot be compared with the priority; m3: contains of a number;
\* v4: a well-formed rule of the priority of m3
MalformedRules ==
    [m1 |-> [name |-> <<"null-condition">>,
             condition |-> JNull,
             assignee |-> s_carol, team |-> Null,
             priority |-> 5, is_active |-> TRUE],
     m2 |-> [name |-> <<"text-bound">>,
             condition |-> JDict(<< <<"doc_type", JStr(s_contract)>>,
                                    <<"priority",
                                      JDict(<< <<"lt", JStr(<<"x">>)>> >>)>> >>),
             assignee |-> s_carol, team |-> Null,
             priority |-> 4, is_active |-> TRUE],
     m3 |-> [name |-> <<"contains-number">>,
             condition |-> JDict(<< <<"doc_type",
                                      JDict(<< <<"contains", JNum(3)>> >>)>> >>),
             assignee |-> s_carol, team |-> Null,
             priority |-> 3, is_active |-> TRUE],
     v4 |-> [name |-> <<"contracts-to-bob">>,
             condition |-> JDict(<< <<"doc_type", JStr(s_contract)>> >>),
             assignee |-> s_bob, team |-> Null,
             priority |-> 3, is_active |-> TRUE]]

MalformedMessages ==
    {Message("d1", s_contract, 5), Message("d1", s_memo, 1)}

InitMalformed ==
    /\ users \in {WithFlags(BaseUsers, f) :
                    f \in {[u \in DOMAIN BaseUsers |-> TRUE],
                           [u \in DOMAIN BaseUsers |-> u = "u1"],
                           [u \in DOMAIN BaseUsers |-> FALSE]}}
    /\ rules \in {WithFlags(MalformedRules, f) :
                    f \in [DOMAIN MalformedRules -> BOOLEAN]}
    /\ documents = SeedDocuments
    /\ assignments = SeedRows
    /\ published = <<>>
    /\ now = 0
    /\ delivered = 0
    /\ last = NoLast
    /\ cond = JNull
    /\ ctx = <<>>
    /\ evalOut = NoEval
    /\ calls = NoCalls
    /\ stats = NoStats

RouteMalformed ==
    process_routing_message(MalformedMessages, {"none"}, MaxDeliveries)

NextMalformed == RouteMalformed

SpecMalformed == InitMalformed /\ [][NextMalformed]_vars

---------------------------------------------------------------------------
(* SpecStats: get_routing_statistics over small assignment tables          *)

MaxStatRows == 3

\* a row of the given status, created at 0 and completed at the given time
StatRow(status, completed_at) ==
    [SeedRow("u1", status) EXCEPT !.completed_at = completed_at]

StatRowKinds ==
    {StatRow(status, NoTime) : status \in Statuses}
    \cup {StatRow("completed", t) : t \in {3, 7}}

StatTables ==
    UNION {[1..n -> StatRowKinds] : n \in 0..MaxStatRows}

InitStats ==
    /\ users = BaseUsers
    /\ rules = BaseRules
    /\ documents = SeedDocuments
    /\ assignments \in {Numbered(rows) : rows \in StatTables}
    /\ published = <<>>
    /\ now = 0
    /\ delivered = 0
    /\ last = NoLast
    /\ cond = JNull
    /\ ctx = <<>>
    /\ evalOut = NoEval
    /\ calls = NoCalls
    /\ stats = NoStats

\* one call of get_routing_statistics(db)
Statistics ==
    /\ ~stats.done
    /\ stats' = get_routing_statistics(assignments, users)
    /\ UNCHANGED <<routingVars, evalVars, calls>>

NextStats == Statistics

SpecStats == InitStats /\ [][NextStats]_vars

\* C18 as claimed: the statistics aggregator returns total_assignments,
\* the number of assignments; status_distribution, their number in each of
\* the statuses assigned, in_progress, completed and overdue; and
\* avg_completion_time_hours, the mean of completed_at - created_at over
\* the completed assignments with a completion time (here the fraction
\* avg_tenths / avg_rows of tenths of an hour), 0 when there is none.
C18_AsClaimed ==
    stats.done =>
        /\ stats.outcome = "returned"
        /\ stats.total_assignments = Len(assignments)
        /\ \A status \in Statuses :
              stats.status_distribution[status]
                  = StatusCount(assignments, status)
        /\ IF CompletedRows(assignments) = {}
           THEN stats.avg_tenths = 0
           ELSE stats.avg_tenths * Cardinality(CompletedRows(assignments))
                    = stats.avg_rows
                          * TotalTime(assignments, CompletedRows(assignments))

\* the evaluation of the rule's condition on the latest message raises
\* inside the evaluator
Malformed(r) == EvalTry(rules[r].condition, LastContext) = "Raise"

\* C16: a rule whose condition is malformed (null, or with a bound that
\* cannot be compared with the context value) is non-matching and nothing
\* more: the rules after it are still examined, the first of them that
\* matches is selected, the default rule applies only when none does, and
\* the decision ends in an assignment or in NoRoute, never in an error.
C16_MalformedSkipped ==
    last.outcome # "none" =>
        LET order == last.ruleOrder IN
        /\ last.outcome \in {"routed", "no_route"}
        /\ last.outcome = "routed" <=> ActiveUsers(users) # {}
        /\ \A r \in ActiveRules : Malformed(r) => ~Matches(r) /\ last.matched # r
        /\ (last.matched = "default") <=> (\A r \in ActiveRules : ~Matches(r))
        /\ last.matched # "default" =>
              /\ last.examined \in DOMAIN order
              /\ order[last.examined] = last.matched
              /\ \A i \in 1..(last.examined - 1) : ~Matches(order[i])

\* three malformed rules are examined before the well-formed one, which is
\* selected; the document is assigned
C16_Witness ==
    /\ last.outcome = "routed"
    /\ ActiveRules = {"m1", "m2", "m3", "v4"}
    /\ Malformed("m1") /\ Malformed("m2") /\ Malformed("m3")
    /\ last.ruleOrder = <<"m1", "m2", "m3", "v4">>
    /\ last.examined = 4
    /\ last.matched = "v4"
    /\ last.assignee = "u2"

\* the consumer takes a step
Steps(c) == calls'[c] # calls[c]

\* the rows the engine has added since the start
EngineRows == {i \in DOMAIN assignments : i > Len(SeedRows)}

\* C13: a routing attempt that ends in NoRoute or in a failure has left
\* the document's status as it was and has published nothing: the status
\* and the queue are written only by a call that has its assignment
\* committed, the queue only once the status is written, and from there
\* the call cannot fail any more; no document record ever disappears.
C13_FailedAttemptLeavesDocument ==
    [][\A c \in Consumers :
          /\ DOMAIN documents' = DOMAIN documents
          /\ (Steps(c) /\ calls'[c].outcome \in {"no_route", "error"})
                => (documents' = documents /\ published' = published)
          /\ (Steps(c) /\ documents' # documents)
                => (calls[c].pc = "status" /\ calls[c].assignment_id # 0
                    /\ calls'[c].pc = "publish")
          /\ (Steps(c) /\ published' # published)
                => (calls[c].pc = "publish" /\ calls'[c].outcome = "routed")
          /\ (Steps(c) /\ calls[c].pc = "publish")
                => calls'[c].outcome = "routed"]_vars

\* a call has failed at the commit of the status: its assignment is in the
\* table, the document is still classified and nothing is published
C13_Witness ==
    \E c \in Consumers :
        /\ calls[c].outcome = "error"
        /\ calls[c].assignment_id # 0
        /\ documents[calls[c].msg.document_id] = "classified"
        /\ published = <<>>

\* C14: a notification is published only by a call whose assignment is
\* persisted and whose document has status 'routed', and its document_id,
\* assignment_id, assigned_to, doc_type, priority and routing_reason are
\* those of that assignment and of the call's inbound event.
C14_NotifyAfterPersist ==
    [][published' # published =>
          \E c \in Consumers :
              /\ Steps(c)
              /\ calls[c].pc = "publish"
              /\ calls[c].assignment_id \in DOMAIN assignments
              /\ LET msg == calls[c].msg
                     row == assignments[calls[c].assignment_id]
                     note == published'[Len(published')]
                 IN  /\ published' = Append(published, note)
                     /\ documents[msg.document_id] = "routed"
                     /\ row.doc_id = msg.document_id
                     /\ row.priority = msg.priority
                     /\ note.document_id = msg.document_id
                     /\ note.assignment_id = row.id
                     /\ note.assigned_to = users[row.user_id].username
                     /\ note.doc_type = msg.doc_type
                     /\ note.priority = msg.priority
                     /\ note.routing_reason =
                           <<"Matched rule: ">>
                           \o (IF calls[c].matched = "default"
                               THEN <<"Default rule for ">> \o msg.doc_type
                               ELSE rules[calls[c].matched].name)]_vars

\* the notification of the first assignment the engine made is on the queue
C14_Witness ==
    /\ Len(published) = 1
    /\ published[1].assignment_id = Len(SeedRows) + 1
    /\ published[1].document_id = "d1"
    /\ published[1].priority = 5
    /\ documents["d1"] = "routed"
    /\ assignments[Len(SeedRows) + 1].doc_id = "d1"

\* C15: every assignment references a document and a worker that exist; a
\* message whose document_id matches no document gets no assignment; the
\* worker of an assignment the engine created is an active worker.
C15_ReferentialIntegrity ==
    /\ \A i \in DOMAIN assignments :
          /\ assignments[i].doc_id \in DOMAIN documents
          /\ assignments[i].user_id \in DOMAIN users
          /\ i \in EngineRows => users[assignments[i].user_id].is_active
    /\ \A c \in Consumers :
          /\ calls[c].msg.document_id \notin DOMAIN documents
                => (calls[c].pc \in {"idle", "done"}
                    /\ calls[c].assignment_id = 0)
          /\ calls[c].pool # <<>>
                => \A j \in DOMAIN calls[c].pool :
                      users[calls[c].pool[j]].is_active

\* a message for an unknown document has been dropped without a row, and
\* a message for a known one has given a row
C15_Witness ==
    /\ \E c \in Consumers :
          /\ calls[c].outcome = "not_found"
          /\ calls[c].msg.document_id = "dX"
    /\ \E c \in Consumers : calls[c].outcome = "routed"
    /\ Len(assignments) = Len(SeedRows) + 1

\* C17: a decision that fails after the rule and the assignee are chosen
\* and before the commit of the assignment leaves no row: the table is
\* changed only by the commit of a call that goes on, by one whole row, and
\* a call that fails before it leaves the table as it found it.
C17_NoPartialAssignment ==
    [][\A c \in Consumers :
          /\ (Steps(c) /\ assignments' # assignments) =>
                /\ calls[c].pc = "insert"
                /\ calls'[c].outcome # "error"
                /\ calls'[c].assignment_id = Len(assignments) + 1
                /\ Len(assignments') = Len(assignments) + 1
                /\ SubSeq(assignments', 1, Len(assignments)) = assignments
                /\ assignments'[Len(assignments')].doc_id
                      = calls[c].msg.document_id
          /\ (Steps(c) /\ calls'[c].outcome = "error"
                /\ calls[c].pc \in {"count", "insert"}) =>
                /\ assignments' = assignments
                /\ calls'[c].assignment_id = 0]_vars

\* a call has failed at the commit of its assignment, the assignee chosen:
\* the table is as it was
C17_Witness ==
    \E c \in Consumers :
        /\ calls[c].outcome = "error"
        /\ calls[c].pool # <<>>
        /\ calls[c].idx = Len(calls[c].pool) + 1
        /\ calls[c].best.user # "none"
        /\ calls[c].assignment_id = 0
        /\ assignments = SeedRows

\* C19 as claimed: in no reachable state is an assignment the engine
\* created persisted while its document's status is still the pre-routing
\* one.
C19_AsClaimed ==
    \A i \in EngineRows : documents[assignments[i].doc_id] = "routed"

\* C20: the engine has no per-document idempotency check: a message for a
\* document that exists is never passed over, whatever the document's
\* status and assignments; with an active worker its call ends routed
\* unless it fails, with a row of its own for the document; so two
\* deliveries of the same document's event, one after the other or at the
\* same time, leave two assignments.
C20_NoIdempotency ==
    \A c \in Consumers :
        /\ calls[c].outcome = "not_found"
              => calls[c].msg.document_id \notin DOMAIN documents
        /\ (calls[c].pc = "done" /\ ActiveUsers(users) # {}
               /\ calls[c].msg.document_id \in DOMAIN documents)
              => calls[c].outcome \in {"routed", "error"}
        /\ calls[c].outcome = "routed" =>
              /\ calls[c].assignment_id \in EngineRows
              /\ assignments[calls[c].assignment_id].doc_id
                    = calls[c].msg.document_id
              /\ \A other \in Consumers \ {c} :
                    calls[other].assignment_id # calls[c].assignment_id

\* the event of d1 has been routed twice, the second time with the
\* document found in status 'routed': d1 has two assignments
C20_Witness ==
    /\ calls["c1"].outcome = "routed" /\ calls["c2"].outcome = "routed"
    /\ calls["c1"].msg.document_id = "d1" /\ calls["c2"].msg.document_id = "d1"
    /\ calls["c1"].doc_status = "classified"
    /\ calls["c2"].doc_status = "routed"
    /\ Cardinality({i \in EngineRows : assignments[i].doc_id = "d1"}) = 2


\* the active count the call read for the worker it chose (no skill bonus)
CountRead(c) == calls[c].best.workload.n \div 5

\* the rows of the table when the call inserted its own
RowsAtInsert(c) == SubSeq(assignments, 1, calls[c].assignment_id - 1)

\* the count of the chosen worker had changed between the call's read of it
\* and the call's insert
ReadIsStale(c) ==
    CountRead(c) < ActiveCount(RowsAtInsert(c), calls[c].best.user)

\* the two workers of the pool carried equal active counts when the call
\* inserted its row
EquallyLoadedAtInsert(c) ==
    ActiveCount(RowsAtInsert(c), "u1") = ActiveCount(RowsAtInsert(c), "u2")

\* C21: over a pool of two workers of equal capacity and equal load, two
\* decisions for different documents, one inserting right after the other,
\* assign to the same worker only when the later of the two inserted on a
\* count it had read before the earlier one inserted: the counts are read
\* without a lock, and decisions that do not overlap put the two documents
\* on different workers
C21_SnapshotRace ==
    \A c1, c2 \in Consumers :
        (/\ calls[c1].assignment_id # 0
         /\ calls[c2].assignment_id = calls[c1].assignment_id + 1
         /\ EquallyLoadedAtInsert(c1)
         /\ calls[c1].msg.document_id # calls[c2].msg.document_id
         /\ calls[c1].best.user = calls[c2].best.user)
        => ReadIsStale(c2)

\* both decisions read the same count of the same worker and both assigned
\* to that worker, which now carries two rows more than the other
C21_Witness ==
    /\ calls["c1"].outcome = "routed" /\ calls["c2"].outcome = "routed"
    /\ calls["c1"].msg.document_id # calls["c2"].msg.document_id
    /\ calls["c1"].best.user = "u1" /\ calls["c2"].best.user = "u1"
    /\ CountRead("c1") = CountRead("c2")
    /\ ActiveCount(assignments, "u1") = ActiveCount(assignments, "u2") + 2


\* the place of a candidate in the pool, in iteration order
Position(u) == CHOOSE i \in DOMAIN last.pool : last.pool[i] = u

\* the effective load of a candidate before the latest call, as the double
\* the selector computes
LoadBefore(u) ==
    EffectiveWorkload(ActiveBefore(u), users[u].workload_capacity, Skilled(u))

IsNestedContains ==
    /\ cond.t = "dict" /\ Len(cond.v) = 1
    /\ cond.v[1][1] \in DOMAIN ctx
    /\ cond.v[1][2].t = "dict" /\ Len(cond.v[1][2].v) = 1
    /\ cond.v[1][2].v[1][1] = "contains"
    /\ cond.v[1][2].v[1][2].t = "str"

\* C23: the condition {field: {contains: s}} evaluates to what the condition
\* {field: s} evaluates to, for every context value of the field, those that
\* are neither a string nor a list included
C23_AsClaimed ==
    (evalOut.done /\ IsNestedContains) =>
        evalOut.value =
            evaluate_rule_condition(
                JDict(<< <<cond.v[1][1], cond.v[1][2].v[1][2]>> >>), ctx)


\* the callback of consumer c is between its first statement and its return
InProgress(c) == calls[c].pc \notin {"idle", "done"}

\* the statement of the loop, or the write after it, at which the callback
\* of consumer c stands completes
Completes(c) == Count(c) \/ Insert(c) \/ SetStatus(c) \/ Publish(c)

\* C24: every routing decision terminates: a callback that has begun
\* reaches its end (assignment created, NoRoute, not found or failure); the
\* loop over the candidates visits each candidate once, in order, and stops
\* after the last; and whatever the other consumer is doing, the count or
\* the write at which a callback stands can complete
C24_Terminates ==
    /\ \A c \in Consumers : InProgress(c) ~> (calls[c].pc = "done")
    /\ [][\A c \in Consumers :
              (Steps(c) /\ calls[c].pc = "count") =>
                  /\ calls[c].idx \in 1..Len(calls[c].pool)
                  /\ \/ calls'[c].outcome = "error"
                     \/ /\ calls'[c].idx = calls[c].idx + 1
                        /\ calls'[c].pc = "count"
                              <=> calls[c].idx < Len(calls[c].pool)]_vars
    /\ [](\A c \in Consumers :
              calls[c].pc \in {"count", "insert", "status", "publish"}
              => ENABLED Completes(c))

\* one callback has run to its end over a pool of two candidates, each
\* visited once, while the other consumer's callback is still in its loop
C24_Witness ==
    /\ calls["c1"].outcome = "routed" /\ calls["c1"].pc = "done"
    /\ Len(calls["c1"].pool) = 2 /\ calls["c1"].idx = 3
    /\ calls["c2"].pc = "count"



\* the table before the first delivery (every delivery of SpecLoad adds a row)
RowsAtStart == SubSeq(assignments, 1, Len(assignments) - delivered)

\* the worker's rows of the table in the statuses that count as active
ActiveIn(rows, u) ==
    Cardinality({i \in DOMAIN rows :
                    /\ rows[i].user_id = u
                    /\ rows[i].status \in {"assigned", "in_progress"}})

\* the two workers form the pool of every decision, with equal capacity, no
\* declared skills and equal active counts before the first decision
EqualStart ==
    /\ users["u1"].workload_capacity = users["u2"].workload_capacity
    /\ users["u1"].skills = JNull /\ users["u2"].skills = JNull
    /\ ActiveIn(RowsAtStart, "u1") = ActiveIn(RowsAtStart, "u2")

\* C25: under sequential routing over one pool of workers of equal capacity
\* without skill matches, who start from equal active counts and whose
\* assignments stay active, the active counts of two workers of the pool
\* never differ by more than 1
C25_NoStarvation ==
    EqualStart =>
        /\ Len(assignments) = Len(RowsAtStart) + delivered
        /\ ActiveIn(assignments, "u1") - ActiveIn(assignments, "u2")
              \in {-1, 0, 1}

\* two decisions from two active assignments each: each worker got one
C25_Witness ==
    /\ EqualStart
    /\ delivered = 2
    /\ ActiveIn(RowsAtStart, "u1") = 2
    /\ ActiveIn(assignments, "u1") = 3
    /\ ActiveIn(assignments, "u2") = 3


\* the worker held at least workload_capacity active assignments before the
\* latest call
AtCapacity(u) == ActiveBefore(u) >= users[u].workload_capacity

\* C26: workload_capacity is no hard limit: a worker whose active count is
\* at or above workload_capacity stays a candidate, and when every candidate
\* is at or above its capacity the decision still assigns, so that the
\* chosen worker's active count exceeds its capacity
C26_CapacityNotEnforced ==
    last.outcome # "none" =>
        /\ last.outcome = "routed"
        /\ Range(last.pool) = {"u1", "u2"}
        /\ (AtCapacity("u1") /\ AtCapacity("u2")) =>
              ActiveIn(assignments, last.assignee)
                  > users[last.assignee].workload_capacity

\* both workers of capacity 5 hold five active assignments; the decision
\* gives one of them a sixth
C26_Witness ==
    /\ last.outcome = "routed"
    /\ users["u1"].workload_capacity = 5 /\ users["u2"].workload_capacity = 5
    /\ ActiveBefore("u1") = 5 /\ ActiveBefore("u2") = 5
    /\ ActiveIn(assignments, last.assignee) = 6


\* the rows of the table that reference the document
RowsOf(d) == {i \in DOMAIN assignments : assignments[i].doc_id = d}

\* C27: a document in status 'routed' has at least one assignment that
\* references it: the consumer sets the status only after route_document
\* has committed the assignment
C27_RoutedHasAssignment ==
    \A d \in DOMAIN documents : documents[d] = "routed" => RowsOf(d) # {}

\* a consumer has set d1 to 'routed'; the row its call committed is there
C27_Witness ==
    \E c \in Consumers :
        /\ calls[c].msg.document_id = "d1"
        /\ calls[c].doc_status = "classified"
        /\ calls[c].pc \in {"publish", "done"}
        /\ documents["d1"] = "routed"
        /\ calls[c].assignment_id \in RowsOf("d1")


\* the inactive workers the selected rule's assignee names
InactiveNamed ==
    {u \in DOMAIN users :
        /\ StrTruthy(last.rule.assignee)
        /\ users[u].username = last.rule.assignee
        /\ ~users[u].is_active}

\* C28: when the selected rule's assignee names an existing but inactive
\* worker and some worker is active, the decision is no NoRoute and does not
\* assign to the inactive worker: the name is read as a team, the pool is
\* the active workers of that department, else of the rule's team, else all
\* active workers, and one of the pool gets the document
C28_InactiveAssignee ==
    (Returned /\ InactiveNamed # {} /\ ActiveUsers(users) # {}) =>
        /\ last.outcome = "routed"
        /\ last.assignee \notin InactiveNamed
        /\ users[last.assignee].is_active
        /\ Range(last.pool) =
              IF RuleMembers # {} THEN RuleMembers ELSE ActiveUsers(users)
        /\ last.assignee \in Range(last.pool)
        /\ assignments[last.assignment_id].user_id = last.assignee

\* the rule names alice, who is inactive; its team is finance, whose only
\* worker carol is inactive too: bob, the one active worker, gets the
\* contract
C28_Witness ==
    /\ last.outcome = "routed"
    /\ last.matched = "r1"
    /\ InactiveNamed = {"u1"}
    /\ ~users["u3"].is_active
    /\ last.pool = <<"u2">>
    /\ last.assignee = "u2"


\* the notifications on the queue that are about the document
NotesOf(d) == {i \in DOMAIN published : published[i].document_id = d}

\* C29: a failure to publish does not undo or fail the routing: the step
\* that ends a call at its publish statement without a new notification
\* leaves the assignment in the table and the document 'routed' and ends
\* the call as routed; a call that has ended publishes nothing more
C29_PublishFailureKeepsRouting ==
    [][\A c \in Consumers :
          /\ (Steps(c) /\ calls[c].pc = "publish"
                /\ published' = published) =>
                 /\ calls'[c].pc = "done"
                 /\ calls'[c].outcome = "routed"
                 /\ assignments' = assignments
                 /\ assignments[calls[c].assignment_id].doc_id
                       = calls[c].msg.document_id
                 /\ documents' = documents
                 /\ documents[calls[c].msg.document_id] = "routed"
          /\ (Steps(c) /\ calls[c].pc = "done") =>
                 /\ published' = published
                 /\ calls'[c].pc # "publish"]_vars

\* both consumers are at rest, d1 is 'routed' and has its assignment, and
\* no notification about d1 was ever published
C29_Witness ==
    /\ \A c \in Consumers : calls[c].pc \in {"idle", "done"}
    /\ \E c \in Consumers :
          /\ calls[c].outcome = "routed"
          /\ calls[c].msg.document_id = "d1"
          /\ calls[c].doc_status = "classified"
    /\ documents["d1"] = "routed"
    /\ RowsOf("d1") # {}
    /\ NotesOf("d1") = {}


\* an expected value that is neither a string, a number nor an object, or an
\* object with none of the keys gt, lt, gte, lte, contains
Unhandled(expected) ==
    \/ expected.t \notin {"str", "num", "dict"}
    \/ /\ expected.t = "dict"
       /\ \A i \in DOMAIN expected.v :
             expected.v[i][1] \notin {"gt", "lt", "gte", "lte", "contains"}

===========================================================================
